---- MODULE Spec2Model ----
(***************************************************************************)
(* Model of the two bare-metal benchmark drivers                           *)
(*   Performance Testing kernels/ara_gemmini_scalar_compare.c              *)
(*   Performance Testing kernels/ara_gemmini_compare.c                     *)
(* Buffers are functions over 0-based index ranges, as in the C source.    *)
(* The sizes DIM, TEST_DIM, VEC_LEN are scaled down; every operator that   *)
(* depends on a size takes it from the buffer it is given.                 *)
(***************************************************************************)
EXTENDS Integers, Sequences, FiniteSets, TLC

\* ------------------------------------------------------------------ sizes
\* side of the accelerator tile (include/gemmini_params.h, used at line 68)
DIM == 3
\* side of the int32 matrices (#define TEST_DIM), scaled down
TEST_DIM == 2
\* length of the SAXPY vectors (#define VEC_LEN), scaled down
VEC_LEN == 4
\* hardware maximum vector length for e32/m1 (VLEN / 32), scaled down
VLMAX == 2
\* largest value the free-running cycle counter takes in a run
MaxCycle == 2

MAT_SIZE == TEST_DIM * TEST_DIM

\* ------------------------------------------------- fixed-width arithmetic
\* An unsigned 64-bit value is four 16-bit limbs, least significant first.
Limb == 2^16

Min(a, b) == IF a < b THEN a ELSE b

Abs(v) == IF v < 0 THEN -v ELSE v

\* size_t value of a small natural (n < 2^31)
U64FromNat(n) == << n % Limb, n \div Limb, 0, 0 >>

\* uint32_t seed, given as << low half, high half >>, widened to size_t
U64FromU32(seed) == << seed[1], seed[2], 0, 0 >>

\* a + b with the sum truncated to 32 bits
Add64_uint32(a, b) ==
    LET s1 == a[1] + b[1]
        s2 == a[2] + b[2] + (s1 \div Limb)
    IN << s1 % Limb, s2 % Limb, 0, 0 >>

\* a + b modulo 2^64 (x and y are the values of a and b, computed once)
Add64(a, b) ==
    CHOOSE r \in
       {LET s1 == x[1] + y[1]
            s2 == x[2] + y[2] + (s1 \div Limb)
            s3 == x[3] + y[3] + (s2 \div Limb)
            s4 == x[4] + y[4] + (s3 \div Limb)
        IN << s1 % Limb, s2 % Limb, s3 % Limb, s4 % Limb >> : x \in {a}, y \in {b}} : TRUE

\* a - b modulo 2^64 (the unsigned subtraction wraps)
Sub64(a, b) ==
    CHOOSE r \in
       {LET d1 == x[1] - y[1]
            w1 == IF d1 < 0 THEN 1 ELSE 0
            d2 == x[2] - y[2] - w1
            w2 == IF d2 < 0 THEN 1 ELSE 0
            d3 == x[3] - y[3] - w2
            w3 == IF d3 < 0 THEN 1 ELSE 0
            d4 == x[4] - y[4] - w3
        IN << d1 % Limb, d2 % Limb, d3 % Limb, d4 % Limb >> : x \in {a}, y \in {b}} : TRUE

\* a % m for a small modulus m, as a size_t
Mod64(a, m) ==
    CHOOSE r \in
       {LET r4 == x[4] % m
            r3 == (r4 * Limb + x[3]) % m
            r2 == (r3 * Limb + x[2]) % m
            r1 == (r2 * Limb + x[1]) % m
        IN U64FromNat(r1) : x \in {a}} : TRUE

\* conversion of a size_t to elem_t (int8_t): the low 8 bits, two's complement
U64ToInt8(u) ==
    LET b == u[1] % 256 IN IF b >= 128 THEN b - 256 ELSE b

\* conversion of a size_t to int32_t: the low 32 bits, two's complement
U64ToInt32(u) ==
    IF u[2] >= 32768 THEN (u[2] - Limb) * Limb + u[1] ELSE u[2] * Limb + u[1]

\* conversion of an int to elem_t (int8_t)
ToInt8(v) == ((v + 128) % 256) - 128

\* value of an int32_t expression; TLC's integers are exactly the int32 range
InInt32(v) == v >= -2147483647 - 1 /\ v <= 2147483647

\* ------------------------------------------------------------- generators
\* mat[i][j] = ((seed + i * DIM + j) % 16) - 8
init_matrix_int8(mat, seed) ==
    LET d == Cardinality(DOMAIN mat)
    IN [i \in DOMAIN mat |-> [j \in DOMAIN mat[i] |->
          U64ToInt8(Sub64(Mod64(Add64(Add64(U64FromU32(seed), U64FromNat(i * d)),
                                      U64FromNat(j)), 16),
                          U64FromNat(8)))]]

\* mat[i] = ((seed + i) % 64) - 32, for i < size
init_matrix_int32(mat, size, seed) ==
    [i \in DOMAIN mat |->
        IF i < size
        THEN U64ToInt32(Sub64(Mod64(Add64(U64FromU32(seed), U64FromNat(i)), 64),
                              U64FromNat(32)))
        ELSE mat[i]]

\* the vector generator adding its value to what the element holds
init_vector_int32_accumulate(vec, len, seed) ==
    [i \in DOMAIN vec |->
        IF i < len
        THEN vec[i] + U64ToInt32(Sub64(Mod64(Add64(U64FromU32(seed), U64FromNat(i)), 100),
                                       U64FromNat(50)))
        ELSE vec[i]]

\* vec[i] = ((seed + i) % 100) - 50, for i < len
init_vector_int32(vec, len, seed) ==
    [i \in DOMAIN vec |->
        IF i < len
        THEN U64ToInt32(Sub64(Mod64(Add64(U64FromU32(seed), U64FromNat(i)), 100),
                              U64FromNat(50)))
        ELSE vec[i]]

zero_matrix_int8(mat) == [i \in DOMAIN mat |-> [j \in DOMAIN mat[i] |-> 0]]

zero_matrix_int32(mat, size) == [i \in DOMAIN mat |-> IF i < size THEN 0 ELSE mat[i]]

\* ---------------------------------------------------------------- kernels
\* the loop run with i <= n for its condition
scalar_saxpy_inclusive(a, x, y, n) ==
    [i \in DOMAIN y |-> IF i <= n THEN a * x[i] + y[i] ELSE y[i]]

\* y[i] = a * x[i] + y[i], for i < n (int32_t arithmetic; every value the
\* model feeds it stays inside the int32 range)
scalar_saxpy(a, x, y, n) ==
    [i \in DOMAIN y |-> IF i < n THEN a * x[i] + y[i] ELSE y[i]]

\* sum += (int64_t)A[i*N+k] * (int64_t)B[k*N+j], for k = 0 .. N-1
RECURSIVE DotInt32(_, _, _, _, _, _)
DotInt32(A, B, N, i, j, k) ==
    IF k = 0 THEN 0
    ELSE DotInt32(A, B, N, i, j, k - 1) + A[i * N + (k - 1)] * B[(k - 1) * N + j]

\* the sum converted to elem_t instead of int32_t
CastInt32_to_int8(v) == ToInt8(v)

\* (int32_t)sum: the low 32 bits of the sum as two halves, two's complement
CastInt32(v) ==
    LET lo == v % Limb
        hi == (v \div Limb) % Limb
    IN (IF hi >= 32768 THEN hi - Limb ELSE hi) * Limb + lo

\* C[i*N+j] = (int32_t)sum
scalar_matmul_int32(A, B, C, N) ==
    [c \in DOMAIN C |->
        IF c < N * N THEN CastInt32(DotInt32(A, B, N, c \div N, c % N, N)) ELSE C[c]]

\* int32_t sum: sum += (int32_t)A[i][k] * (int32_t)B[k][j]
AccAdd(sum, prod) == sum + prod

\* the k loop of scalar_matmul_int8, for k = 0 .. n-1
RECURSIVE DotInt8(_, _, _, _, _)
DotInt8(A, B, i, j, n) ==
    IF n = 0 THEN 0
    ELSE AccAdd(DotInt8(A, B, i, j, n - 1), A[i][n - 1] * B[n - 1][j])

\* the store without the two saturation tests
SaturateInt8_cast_only(sum) == ToInt8(sum)

\* if (sum > 127) sum = 127; if (sum < -128) sum = -128; (elem_t)sum
SaturateInt8(sum) ==
    LET s1 == IF sum > 127 THEN 127 ELSE sum
        s2 == IF s1 < -128 THEN -128 ELSE s1
    IN ToInt8(s2)

scalar_matmul_int8(A, B, C) ==
    LET d == Cardinality(DOMAIN A)
    IN [i \in DOMAIN C |-> [j \in DOMAIN C[i] |->
          SaturateInt8(DotInt8(A, B, i, j, d))]]

\* vsetvli vl, n, e32, m1, ta, ma : the lengths the vector unit may grant
\* for an application vector length n > 0
vsetvli(n) == 1 .. Min(n, VLMAX)

\* one iteration with the add taking v1 for its second operand
ara_chunk_add_v1(a, x, y, off, vl) ==
    LET v1 == [e \in 0 .. vl - 1 |-> x[off + e]]
        v3 == [e \in 0 .. vl - 1 |-> a * v1[e]]
        v2n == [e \in 0 .. vl - 1 |-> v3[e] + v1[e]]
    IN [i \in DOMAIN y |-> IF i >= off /\ i < off + vl THEN v2n[i - off] ELSE y[i]]

\* one iteration: vle32.v v1,(x); vle32.v v2,(y); vmul.vx v3,v1,a;
\* vadd.vv v2,v3,v2; vse32.v v2,(y), on vl elements from offset off

\* one iteration of the while loop of ara_vector_saxpy at offset off with the
\* granted length vl: vle32 v1,(x); vle32 v2,(y); vmul.vx v3,v1,a;
\* vadd.vv v2,v3,v2; vse32 v2,(y)
ara_chunk(a, x, y, off, vl) ==
    LET v1 == [e \in 0 .. vl - 1 |-> x[off + e]]
        v2 == [e \in 0 .. vl - 1 |-> y[off + e]]
        v3 == [e \in 0 .. vl - 1 |-> a * v1[e]]
        v2n == [e \in 0 .. vl - 1 |-> v3[e] + v2[e]]
    IN [i \in DOMAIN y |-> IF i >= off /\ i < off + vl THEN v2n[i - off] ELSE y[i]]

\* the whole loop, the unit granting Min(n, grant) in every iteration
RECURSIVE ara_vector_saxpy(_, _, _, _, _, _)
ara_vector_saxpy(a, x, y, off, n, grant) ==
    IF n > 0
    THEN LET vl == Min(n, grant)
         IN ara_vector_saxpy(a, x, ara_chunk(a, x, y, off, vl), off + vl, n - vl, grant)
    ELSE y

\* ----------------------------------------------------------- verification
\* the tolerance test with the difference taken in elem_t instead of int
mismatch_int8_narrow(got, expected) ==
    LET diff == ToInt8(got - expected) IN diff < -1 \/ diff > 1

\* int diff = (int)gemmini_C[i][j] - (int)gemmini_ref[i][j];
\* if (diff < -1 || diff > 1)
mismatch_int8(got, expected) ==
    LET diff == got - expected IN diff < -1 \/ diff > 1

\* A verification pass carries: errors, the MISMATCH lines printed, and the
\* cells whose comparison was executed.
VerifyStart == [errors |-> 0, printed |-> << >>, visited |-> {}]

\* body of the inner loop of the accelerator verification at cell (i, j)
verify_cell(C, ref, i, j, st) ==
    IF mismatch_int8(C[i][j], ref[i][j])
    THEN [errors |-> st.errors + 1,
          printed |-> Append(st.printed, << "MISMATCH", i, j, C[i][j], ref[i][j] >>),
          visited |-> st.visited \cup {<< i, j >>}]
    ELSE [st EXCEPT !.visited = @ \cup {<< i, j >>}]

\* the inner loop going on while errors <= 5
RECURSIVE verify_row_one_more(_, _, _, _, _)
verify_row_one_more(C, ref, i, j, st) ==
    IF j < Cardinality(DOMAIN C[i]) /\ st.errors <= 5
    THEN verify_row_one_more(C, ref, i, j + 1, verify_cell(C, ref, i, j, st))
    ELSE st

\* for (j = 0; j < DIM && errors < 5; j++)
RECURSIVE verify_row(_, _, _, _, _)
verify_row(C, ref, i, j, st) ==
    IF j < Cardinality(DOMAIN C[i]) /\ st.errors < 5
    THEN verify_row(C, ref, i, j + 1, verify_cell(C, ref, i, j, st))
    ELSE st

\* for (i = 0; i < DIM && errors < 5; i++)
RECURSIVE verify_rows(_, _, _, _)
verify_rows(C, ref, i, st) ==
    IF i < Cardinality(DOMAIN C) /\ st.errors < 5
    THEN verify_rows(C, ref, i + 1, verify_row(C, ref, i, 0, st))
    ELSE st

\* the accelerator verification pass: int errors = 0; the two loops
verify_gemmini(C, ref) == verify_rows(C, ref, 0, VerifyStart)

\* for (i = 0; i < VEC_LEN && errors < 5; i++) if (vec_y[i] != vec_ref[i])
RECURSIVE verify_vec_loop(_, _, _, _, _)
verify_vec_loop(y, ref, n, i, st) ==
    IF i < n /\ st.errors < 5
    THEN verify_vec_loop(y, ref, n, i + 1,
            IF y[i] # ref[i]
            THEN [errors |-> st.errors + 1,
                  printed |-> Append(st.printed, << "MISMATCH", i, y[i], ref[i] >>),
                  visited |-> st.visited \cup {i}]
            ELSE [st EXCEPT !.visited = @ \cup {i}])
    ELSE st

\* the vector verification pass of test_ara_performance
verify_ara(y, ref, n) == verify_vec_loop(y, ref, n, 0, VerifyStart)

\* ------------------------------------------------------------ the drivers
\* A function body is the sequence of its statements (printf of fixed text
\* left out), each with the source line it stands on.
Ins(line, op, args) == [line |-> line, op |-> op, args |-> args]

\* a seed below 2^16 as a uint32_t
Seed(n) == << n, 0 >>

\* tgp_protocol with the compute issued before the second move-in and the
\* preload
tgp_protocol_compute_early ==
    << Ins(379, "gemmini_config_ld", << DIM >>),
       Ins(380, "gemmini_config_st", << DIM >>),
       Ins(381, "gemmini_mvin", << "gemmini_A", "A_sp" >>),
       Ins(385, "gemmini_compute_preloaded", << "A_sp", "B_sp" >>),
       Ins(382, "gemmini_mvin", << "gemmini_B", "B_sp" >>),
       Ins(383, "gemmini_config_ex", << "OUTPUT_STATIONARY", 0, 0 >>),
       Ins(384, "gemmini_preload_zeros", << "C_sp" >>),
       Ins(386, "gemmini_mvout", << "gemmini_C", "C_sp" >>),
       Ins(387, "gemmini_fence", << >>) >>

\* tgp_protocol with the fence left out
tgp_protocol_no_fence ==
    << Ins(379, "gemmini_config_ld", << DIM >>),
       Ins(380, "gemmini_config_st", << DIM >>),
       Ins(381, "gemmini_mvin", << "gemmini_A", "A_sp" >>),
       Ins(382, "gemmini_mvin", << "gemmini_B", "B_sp" >>),
       Ins(383, "gemmini_config_ex", << "OUTPUT_STATIONARY", 0, 0 >>),
       Ins(384, "gemmini_preload_zeros", << "C_sp" >>),
       Ins(385, "gemmini_compute_preloaded", << "A_sp", "B_sp" >>),
       Ins(386, "gemmini_mvout", << "gemmini_C", "C_sp" >>) >>

\* tgp_protocol with the two operands moved into each other's region
tgp_protocol_operands_swapped ==
    << Ins(379, "gemmini_config_ld", << DIM >>),
       Ins(380, "gemmini_config_st", << DIM >>),
       Ins(381, "gemmini_mvin", << "gemmini_A", "B_sp" >>),
       Ins(382, "gemmini_mvin", << "gemmini_B", "A_sp" >>),
       Ins(383, "gemmini_config_ex", << "OUTPUT_STATIONARY", 0, 0 >>),
       Ins(384, "gemmini_preload_zeros", << "C_sp" >>),
       Ins(385, "gemmini_compute_preloaded", << "A_sp", "B_sp" >>),
       Ins(386, "gemmini_mvout", << "gemmini_C", "C_sp" >>),
       Ins(387, "gemmini_fence", << >>) >>

\* tgp_protocol without the move-in of A, the result tile placed on the
\* region of A
tgp_protocol_result_on_operand ==
    << Ins(379, "gemmini_config_ld", << DIM >>),
       Ins(380, "gemmini_config_st", << DIM >>),
       Ins(382, "gemmini_mvin", << "gemmini_B", "B_sp" >>),
       Ins(383, "gemmini_config_ex", << "OUTPUT_STATIONARY", 0, 0 >>),
       Ins(384, "gemmini_preload_zeros", << "A_sp" >>),
       Ins(385, "gemmini_compute_preloaded", << "A_sp", "B_sp" >>),
       Ins(386, "gemmini_mvout", << "gemmini_C", "A_sp" >>),
       Ins(387, "gemmini_fence", << >>) >>

\* gemmini_config_ld .. gemmini_fence of test_gemmini_performance
tgp_protocol ==
    << Ins(379, "gemmini_config_ld", << DIM >>),
       Ins(380, "gemmini_config_st", << DIM >>),
       Ins(381, "gemmini_mvin", << "gemmini_A", "A_sp" >>),
       Ins(382, "gemmini_mvin", << "gemmini_B", "B_sp" >>),
       Ins(383, "gemmini_config_ex", << "OUTPUT_STATIONARY", 0, 0 >>),
       Ins(384, "gemmini_preload_zeros", << "C_sp" >>),
       Ins(385, "gemmini_compute_preloaded", << "A_sp", "B_sp" >>),
       Ins(386, "gemmini_mvout", << "gemmini_C", "C_sp" >>),
       Ins(387, "gemmini_fence", << >>) >>

\* gemmini_config_ld .. gemmini_fence of test_comparison
tc_protocol ==
    << Ins(460, "gemmini_config_ld", << DIM >>),
       Ins(461, "gemmini_config_st", << DIM >>),
       Ins(462, "gemmini_mvin", << "gemmini_A", "A_sp" >>),
       Ins(463, "gemmini_mvin", << "gemmini_B", "B_sp" >>),
       Ins(464, "gemmini_config_ex", << "OUTPUT_STATIONARY", 0, 0 >>),
       Ins(465, "gemmini_preload_zeros", << "C_sp" >>),
       Ins(466, "gemmini_compute_preloaded", << "A_sp", "B_sp" >>),
       Ins(467, "gemmini_mvout", << "gemmini_C", "C_sp" >>),
       Ins(468, "gemmini_fence", << >>) >>

\* gemmini_config_ld .. gemmini_fence of test_gemmini_matmul
tgm_protocol ==
    << Ins(195, "gemmini_config_ld", << DIM >>),
       Ins(196, "gemmini_config_st", << DIM >>),
       Ins(199, "gemmini_mvin", << "gemmini_A", "A_sp" >>),
       Ins(200, "gemmini_mvin", << "gemmini_B", "B_sp" >>),
       Ins(203, "gemmini_config_ex", << "OUTPUT_STATIONARY", 0, 0 >>),
       Ins(206, "gemmini_preload_zeros", << "C_sp" >>),
       Ins(207, "gemmini_compute_preloaded", << "A_sp", "B_sp" >>),
       Ins(210, "gemmini_mvout", << "gemmini_C", "C_sp" >>),
       Ins(213, "gemmini_fence", << >>) >>

\* gemmini_config_ld .. gemmini_fence of test_performance_comparison
tpc_protocol ==
    << Ins(287, "gemmini_config_ld", << DIM >>),
       Ins(288, "gemmini_config_st", << DIM >>),
       Ins(289, "gemmini_mvin", << "gemmini_A", "A_sp" >>),
       Ins(290, "gemmini_mvin", << "gemmini_B", "B_sp" >>),
       Ins(291, "gemmini_config_ex", << "OUTPUT_STATIONARY", 0, 0 >>),
       Ins(292, "gemmini_preload_zeros", << "C_sp" >>),
       Ins(293, "gemmini_compute_preloaded", << "A_sp", "B_sp" >>),
       Ins(294, "gemmini_mvout", << "gemmini_C", "C_sp" >>),
       Ins(295, "gemmini_fence", << >>) >>

\* the layout with the result tile placed on operand B
tgp_sp_addrs_overlap(d) == << 0, d, d >>

\* the layout with the last row of A on the first row of B
tgp_sp_addrs_ab_overlap(d) == << 0, d - 1, 2 * d >>

\* size_t A_sp = 0, B_sp = DIM, C_sp = 2*DIM;  (test_gemmini_performance)
tgp_sp_addrs(d) == << 0, d, 2 * d >>

\* size_t A_sp = 0, B_sp = DIM, C_sp = 2*DIM;  (test_comparison)
tc_sp_addrs(d) == << 0, d, 2 * d >>

\* A_sp_addr = 0; B_sp_addr = DIM; C_sp_addr = 2 * DIM;  (test_gemmini_matmul)
tgm_sp_addrs(d) == << 0, d, 2 * d >>

\* size_t A_sp = 0, B_sp = DIM, C_sp = 2*DIM;  (test_performance_comparison)
tpc_sp_addrs(d) == << 0, d, 2 * d >>

\* ---- ara_gemmini_scalar_compare.c
test_scalar_performance ==
    << Ins(250, "init_vector_int32", << "vec_x", VEC_LEN, Seed(43981) >>),
       Ins(251, "init_vector_int32", << "vec_y", VEC_LEN, Seed(4660) >>),
       Ins(254, "read_csr_mcycle", << "start" >>),
       Ins(255, "scalar_saxpy", << 3, "vec_x", "vec_y", VEC_LEN >>),
       Ins(256, "read_csr_mcycle", << "end" >>),
       Ins(260, "print_cycles", << "end", "start" >>),
       Ins(267, "init_matrix_int32", << "scalar_A", MAT_SIZE, Seed(22136) >>),
       Ins(268, "init_matrix_int32", << "scalar_B", MAT_SIZE, Seed(39612) >>),
       Ins(269, "zero_matrix_int32", << "scalar_C", MAT_SIZE >>),
       Ins(271, "read_csr_mcycle", << "start" >>),
       Ins(272, "scalar_matmul_int32", << "scalar_A", "scalar_B", "scalar_C", TEST_DIM >>),
       Ins(273, "read_csr_mcycle", << "end" >>),
       Ins(277, "print_cycles", << "end", "start" >>),
       Ins(281, "return", << 0 >>) >>

\* test_ara_performance entered without enabling the vector unit
test_ara_performance_no_enable ==
    << Ins(303, "init_vector_int32", << "vec_x", VEC_LEN, Seed(43981) >>),
       Ins(304, "init_vector_int32", << "vec_y", VEC_LEN, Seed(4660) >>),
       Ins(308, "copy_vector", << "vec_ref", "vec_y", VEC_LEN >>),
       Ins(311, "scalar_saxpy", << 3, "vec_x", "vec_ref", VEC_LEN >>),
       Ins(314, "init_vector_int32", << "vec_y", VEC_LEN, Seed(4660) >>),
       Ins(316, "read_csr_mcycle", << "start" >>),
       Ins(317, "ara_vector_saxpy", << 3, "vec_x", "vec_y", VEC_LEN >>),
       Ins(318, "read_csr_mcycle", << "end" >>),
       Ins(322, "print_cycles", << "end", "start" >>),
       Ins(327, "verify_ara", << "vec_y", "vec_ref", VEC_LEN >>),
       Ins(334, "return_if_errors", << 1 >>),
       Ins(342, "return", << 0 >>) >>

test_ara_performance ==
    << Ins(297, "enable_vector_extension", << >>),
       Ins(303, "init_vector_int32", << "vec_x", VEC_LEN, Seed(43981) >>),
       Ins(304, "init_vector_int32", << "vec_y", VEC_LEN, Seed(4660) >>),
       Ins(308, "copy_vector", << "vec_ref", "vec_y", VEC_LEN >>),
       Ins(311, "scalar_saxpy", << 3, "vec_x", "vec_ref", VEC_LEN >>),
       Ins(314, "init_vector_int32", << "vec_y", VEC_LEN, Seed(4660) >>),
       Ins(316, "read_csr_mcycle", << "start" >>),
       Ins(317, "ara_vector_saxpy", << 3, "vec_x", "vec_y", VEC_LEN >>),
       Ins(318, "read_csr_mcycle", << "end" >>),
       Ins(322, "print_cycles", << "end", "start" >>),
       Ins(327, "verify_ara", << "vec_y", "vec_ref", VEC_LEN >>),
       Ins(334, "return_if_errors", << 1 >>),
       Ins(342, "return", << 0 >>) >>

test_gemmini_performance ==
    << Ins(357, "gemmini_flush", << 0 >>),
       Ins(360, "init_matrix_int8", << "gemmini_A", Seed(22136) >>),
       Ins(361, "init_matrix_int8", << "gemmini_B", Seed(39612) >>),
       Ins(362, "zero_matrix_int8", << "gemmini_C" >>),
       Ins(363, "zero_matrix_int8", << "gemmini_ref" >>),
       Ins(367, "read_csr_mcycle", << "ref_start" >>),
       Ins(368, "scalar_matmul_int8", << "gemmini_A", "gemmini_B", "gemmini_ref" >>),
       Ins(369, "read_csr_mcycle", << "ref_end" >>),
       Ins(370, "print_cycles", << "ref_end", "ref_start" >>),
       Ins(375, "sp_addrs", tgp_sp_addrs(DIM)),
       Ins(377, "read_csr_mcycle", << "start" >>) >>
    \o tgp_protocol \o
    << Ins(389, "read_csr_mcycle", << "end" >>),
       Ins(393, "print_cycles", << "end", "start" >>),
       Ins(398, "verify_gemmini", << "gemmini_C", "gemmini_ref" >>),
       Ins(409, "print_verdict", << "Verification: PASSED", "" >>),
       Ins(414, "return", << 0 >>) >>

\* test_comparison starting its accelerator sequence without a flush
test_comparison_no_flush ==
    << Ins(432, "init_vector_int32", << "vec_x", VEC_LEN, Seed(4369) >>),
       Ins(433, "init_vector_int32", << "vec_y", VEC_LEN, Seed(8738) >>),
       Ins(435, "read_csr_mcycle", << "start" >>),
       Ins(436, "scalar_saxpy", << 5, "vec_x", "vec_y", VEC_LEN >>),
       Ins(437, "cycles_since", << "scalar_saxpy_cycles", "start" >>),
       Ins(439, "init_vector_int32", << "vec_y", VEC_LEN, Seed(8738) >>),
       Ins(440, "read_csr_mcycle", << "start" >>),
       Ins(441, "ara_vector_saxpy", << 5, "vec_x", "vec_y", VEC_LEN >>),
       Ins(442, "cycles_since", << "ara_saxpy_cycles", "start" >>),
       Ins(445, "init_matrix_int32", << "scalar_A", MAT_SIZE, Seed(13107) >>),
       Ins(446, "init_matrix_int32", << "scalar_B", MAT_SIZE, Seed(17476) >>),
       Ins(447, "zero_matrix_int32", << "scalar_C", MAT_SIZE >>),
       Ins(449, "read_csr_mcycle", << "start" >>),
       Ins(450, "scalar_matmul_int32", << "scalar_A", "scalar_B", "scalar_C", TEST_DIM >>),
       Ins(451, "cycles_since", << "scalar_matmul_cycles", "start" >>),
       Ins(454, "init_matrix_int8", << "gemmini_A", Seed(21845) >>),
       Ins(455, "init_matrix_int8", << "gemmini_B", Seed(26214) >>),
       Ins(456, "zero_matrix_int8", << "gemmini_C" >>),
       Ins(458, "sp_addrs", tc_sp_addrs(DIM)),
       Ins(459, "read_csr_mcycle", << "start" >>) >>
    \o tc_protocol \o
    << Ins(469, "cycles_since", << "gemmini_matmul_cycles", "start" >>),
       Ins(481, "print_speedup_tenths", << "scalar_saxpy_cycles", "ara_saxpy_cycles" >>),
       Ins(493, "print_speedup", << "scalar_matmul_cycles", "gemmini_matmul_cycles" >>),
       Ins(508, "return", << 0 >>) >>

\* test_comparison without the second initialisation of vec_y
test_comparison_no_refill ==
    << Ins(432, "init_vector_int32", << "vec_x", VEC_LEN, Seed(4369) >>),
       Ins(433, "init_vector_int32", << "vec_y", VEC_LEN, Seed(8738) >>),
       Ins(435, "read_csr_mcycle", << "start" >>),
       Ins(436, "scalar_saxpy", << 5, "vec_x", "vec_y", VEC_LEN >>),
       Ins(437, "cycles_since", << "scalar_saxpy_cycles", "start" >>),
       Ins(440, "read_csr_mcycle", << "start" >>),
       Ins(441, "ara_vector_saxpy", << 5, "vec_x", "vec_y", VEC_LEN >>),
       Ins(442, "cycles_since", << "ara_saxpy_cycles", "start" >>),
       Ins(445, "init_matrix_int32", << "scalar_A", MAT_SIZE, Seed(13107) >>),
       Ins(446, "init_matrix_int32", << "scalar_B", MAT_SIZE, Seed(17476) >>),
       Ins(447, "zero_matrix_int32", << "scalar_C", MAT_SIZE >>),
       Ins(449, "read_csr_mcycle", << "start" >>),
       Ins(450, "scalar_matmul_int32", << "scalar_A", "scalar_B", "scalar_C", TEST_DIM >>),
       Ins(451, "cycles_since", << "scalar_matmul_cycles", "start" >>),
       Ins(453, "gemmini_flush", << 0 >>),
       Ins(454, "init_matrix_int8", << "gemmini_A", Seed(21845) >>),
       Ins(455, "init_matrix_int8", << "gemmini_B", Seed(26214) >>),
       Ins(456, "zero_matrix_int8", << "gemmini_C" >>),
       Ins(458, "sp_addrs", tc_sp_addrs(DIM)),
       Ins(459, "read_csr_mcycle", << "start" >>) >>
    \o tc_protocol \o
    << Ins(469, "cycles_since", << "gemmini_matmul_cycles", "start" >>),
       Ins(481, "print_speedup_tenths", << "scalar_saxpy_cycles", "ara_saxpy_cycles" >>),
       Ins(493, "print_speedup", << "scalar_matmul_cycles", "gemmini_matmul_cycles" >>),
       Ins(508, "return", << 0 >>) >>

test_comparison ==
    << Ins(432, "init_vector_int32", << "vec_x", VEC_LEN, Seed(4369) >>),
       Ins(433, "init_vector_int32", << "vec_y", VEC_LEN, Seed(8738) >>),
       Ins(435, "read_csr_mcycle", << "start" >>),
       Ins(436, "scalar_saxpy", << 5, "vec_x", "vec_y", VEC_LEN >>),
       Ins(437, "cycles_since", << "scalar_saxpy_cycles", "start" >>),
       Ins(439, "init_vector_int32", << "vec_y", VEC_LEN, Seed(8738) >>),
       Ins(440, "read_csr_mcycle", << "start" >>),
       Ins(441, "ara_vector_saxpy", << 5, "vec_x", "vec_y", VEC_LEN >>),
       Ins(442, "cycles_since", << "ara_saxpy_cycles", "start" >>),
       Ins(445, "init_matrix_int32", << "scalar_A", MAT_SIZE, Seed(13107) >>),
       Ins(446, "init_matrix_int32", << "scalar_B", MAT_SIZE, Seed(17476) >>),
       Ins(447, "zero_matrix_int32", << "scalar_C", MAT_SIZE >>),
       Ins(449, "read_csr_mcycle", << "start" >>),
       Ins(450, "scalar_matmul_int32", << "scalar_A", "scalar_B", "scalar_C", TEST_DIM >>),
       Ins(451, "cycles_since", << "scalar_matmul_cycles", "start" >>),
       Ins(453, "gemmini_flush", << 0 >>),
       Ins(454, "init_matrix_int8", << "gemmini_A", Seed(21845) >>),
       Ins(455, "init_matrix_int8", << "gemmini_B", Seed(26214) >>),
       Ins(456, "zero_matrix_int8", << "gemmini_C" >>),
       Ins(458, "sp_addrs", tc_sp_addrs(DIM)),
       Ins(459, "read_csr_mcycle", << "start" >>) >>
    \o tc_protocol \o
    << Ins(469, "cycles_since", << "gemmini_matmul_cycles", "start" >>),
       Ins(481, "print_speedup_tenths", << "scalar_saxpy_cycles", "ara_saxpy_cycles" >>),
       Ins(493, "print_speedup", << "scalar_matmul_cycles", "gemmini_matmul_cycles" >>),
       Ins(508, "return", << 0 >>) >>

\* ---- ara_gemmini_compare.c
\* test_scalar_matmul taking its start sample after the multiplication
test_scalar_matmul_late_start ==
    << Ins(125, "init_matrix_int32", << "scalar_A", MAT_SIZE, Seed(43981) >>),
       Ins(126, "init_matrix_int32", << "scalar_B", MAT_SIZE, Seed(4660) >>),
       Ins(127, "zero_matrix_int32", << "scalar_C", MAT_SIZE >>),
       Ins(132, "read_csr_minstret", << "start_instrs" >>),
       Ins(134, "scalar_matmul_int32", << "scalar_A", "scalar_B", "scalar_C", TEST_DIM >>),
       Ins(131, "read_csr_mcycle", << "start_cycles" >>),
       Ins(136, "read_csr_mcycle", << "end_cycles" >>),
       Ins(137, "read_csr_minstret", << "end_instrs" >>),
       Ins(139, "subtract", << "cycles", "end_cycles", "start_cycles" >>),
       Ins(140, "subtract", << "instrs", "end_instrs", "start_instrs" >>),
       Ins(147, "ops_per_cycle", << 2 * TEST_DIM * TEST_DIM * TEST_DIM * 1000, "cycles" >>),
       Ins(151, "print", << "Scalar matmul test PASSED" >>),
       Ins(152, "return", << 0 >>) >>

test_scalar_matmul ==
    << Ins(125, "init_matrix_int32", << "scalar_A", MAT_SIZE, Seed(43981) >>),
       Ins(126, "init_matrix_int32", << "scalar_B", MAT_SIZE, Seed(4660) >>),
       Ins(127, "zero_matrix_int32", << "scalar_C", MAT_SIZE >>),
       Ins(131, "read_csr_mcycle", << "start_cycles" >>),
       Ins(132, "read_csr_minstret", << "start_instrs" >>),
       Ins(134, "scalar_matmul_int32", << "scalar_A", "scalar_B", "scalar_C", TEST_DIM >>),
       Ins(136, "read_csr_mcycle", << "end_cycles" >>),
       Ins(137, "read_csr_minstret", << "end_instrs" >>),
       Ins(139, "subtract", << "cycles", "end_cycles", "start_cycles" >>),
       Ins(140, "subtract", << "instrs", "end_instrs", "start_instrs" >>),
       Ins(147, "ops_per_cycle", << 2 * TEST_DIM * TEST_DIM * TEST_DIM * 1000, "cycles" >>),
       Ins(151, "print", << "Scalar matmul test PASSED" >>),
       Ins(152, "return", << 0 >>) >>

test_gemmini_matmul ==
    << Ins(167, "gemmini_flush", << 0 >>),
       Ins(170, "init_matrix_int8", << "gemmini_A", Seed(22136) >>),
       Ins(171, "init_matrix_int8", << "gemmini_B", Seed(39612) >>),
       Ins(172, "zero_matrix_int8", << "gemmini_C" >>),
       Ins(173, "zero_matrix_int8", << "gemmini_ref" >>),
       Ins(177, "read_csr_mcycle", << "ref_start" >>),
       Ins(178, "scalar_matmul_int8", << "gemmini_A", "gemmini_B", "gemmini_ref" >>),
       Ins(179, "read_csr_mcycle", << "ref_end" >>),
       Ins(180, "print_cycles", << "ref_end", "ref_start" >>),
       Ins(186, "sp_addrs", tgm_sp_addrs(DIM)),
       Ins(191, "read_csr_mcycle", << "start_cycles" >>),
       Ins(192, "read_csr_minstret", << "start_instrs" >>) >>
    \o tgm_protocol \o
    << Ins(215, "read_csr_mcycle", << "end_cycles" >>),
       Ins(216, "read_csr_minstret", << "end_instrs" >>),
       Ins(218, "subtract", << "cycles", "end_cycles", "start_cycles" >>),
       Ins(219, "subtract", << "instrs", "end_instrs", "start_instrs" >>),
       Ins(226, "ops_per_cycle", << 2 * DIM * DIM * DIM * 1000, "cycles" >>),
       Ins(232, "verify_gemmini", << "gemmini_C", "gemmini_ref" >>),
       Ins(245, "print_verdict", << "Gemmini results match reference",
                                   "WARNING: Some mismatches found" >>),
       Ins(251, "print", << "Gemmini matmul test PASSED" >>),
       Ins(252, "return", << 0 >>) >>

test_performance_comparison ==
    << Ins(269, "init_matrix_int32", << "scalar_A", MAT_SIZE, Seed(4369) >>),
       Ins(270, "init_matrix_int32", << "scalar_B", MAT_SIZE, Seed(8738) >>),
       Ins(271, "zero_matrix_int32", << "scalar_C", MAT_SIZE >>),
       Ins(273, "read_csr_mcycle", << "scalar_start" >>),
       Ins(274, "scalar_matmul_int32", << "scalar_A", "scalar_B", "scalar_C", TEST_DIM >>),
       Ins(275, "read_csr_mcycle", << "scalar_end" >>),
       Ins(276, "subtract", << "scalar_cycles", "scalar_end", "scalar_start" >>),
       Ins(279, "gemmini_flush", << 0 >>),
       Ins(280, "init_matrix_int8", << "gemmini_A", Seed(13107) >>),
       Ins(281, "init_matrix_int8", << "gemmini_B", Seed(17476) >>),
       Ins(282, "zero_matrix_int8", << "gemmini_C" >>),
       Ins(284, "sp_addrs", tpc_sp_addrs(DIM)),
       Ins(286, "read_csr_mcycle", << "gemmini_start" >>) >>
    \o tpc_protocol \o
    << Ins(296, "read_csr_mcycle", << "gemmini_end" >>),
       Ins(297, "subtract", << "gemmini_cycles", "gemmini_end", "gemmini_start" >>),
       Ins(314, "print_speedup", << "scalar_cycles", "gemmini_cycles" >>),
       Ins(318, "return", << 0 >>) >>

\* the two programs; main calls the test functions in this order
Programs == {"ara_gemmini_scalar_compare", "ara_gemmini_compare"}

\* main calling the accelerator test before the vector test
main_accel_before_vector(p) ==
    IF p = "ara_gemmini_scalar_compare"
    THEN << "test_scalar_performance", "test_gemmini_performance",
            "test_ara_performance", "test_comparison" >>
    ELSE << "test_scalar_matmul", "test_gemmini_matmul",
            "test_performance_comparison" >>

main(prog) ==
    IF prog = "ara_gemmini_scalar_compare"
    THEN << "test_scalar_performance", "test_ara_performance",
            "test_gemmini_performance", "test_comparison" >>
    ELSE << "test_scalar_matmul", "test_gemmini_matmul",
            "test_performance_comparison" >>

Body(fn) ==
    CASE fn = "test_scalar_performance" -> test_scalar_performance
      [] fn = "test_ara_performance" -> test_ara_performance
      [] fn = "test_gemmini_performance" -> test_gemmini_performance
      [] fn = "test_comparison" -> test_comparison
      [] fn = "test_scalar_matmul" -> test_scalar_matmul
      [] fn = "test_gemmini_matmul" -> test_gemmini_matmul
      [] fn = "test_performance_comparison" -> test_performance_comparison

\* ------------------------------------------------------------------ state
VARIABLES
    prog,       \* which of the two programs runs
    hw,         \* how the hardware of this run behaves (fixed per run)
    fn,         \* index in main(prog) of the test function being executed
    pc,         \* index in Body of the statement about to be executed
    loc,        \* the local variables of the running function
    result,     \* main's int result
    status,     \* "running", "exited" or "trapped"
    exitCode,   \* the value passed to exit(), -1 before
    mem,        \* the static buffers
    mstatus,    \* CSR mstatus
    mcycle,     \* CSR mcycle as last read
    minstret,   \* CSR minstret as last read
    console,    \* the verification and banner lines printed so far
    divByZero,  \* an integer division by zero was executed
    gem,        \* the accelerator: command queue, scratchpad, configuration
    issued,     \* every accelerator command issued so far, in issue order
    returns,    \* the test functions that returned so far, each with its value
    fIn,        \* inputs of a kernel checked stand-alone
    fOut,       \* its outputs
    fPc         \* its position

vars == << prog, hw, fn, pc, loc, result, status, exitCode, mem, mstatus, mcycle,
           minstret, console, divByZero, gem, issued, returns, fIn, fOut, fPc >>

ctl == << fn, result, status, exitCode, returns >>
csrs == << mstatus, mcycle, minstret >>
accel == << gem, issued >>
frame == << prog, hw, fIn, fOut, fPc >>

Locals == {"start", "end", "ref_start", "ref_end", "errors", "A_sp", "B_sp", "C_sp",
           "scalar_saxpy_cycles", "ara_saxpy_cycles", "scalar_matmul_cycles",
           "gemmini_matmul_cycles", "start_cycles", "start_instrs", "end_cycles",
           "end_instrs", "cycles", "instrs", "scalar_start", "scalar_end",
           "scalar_cycles", "gemmini_start", "gemmini_end", "gemmini_cycles"}

NoLocals == [v \in Locals |-> 0]

Square(d) == [i \in 0 .. d - 1 |-> [j \in 0 .. d - 1 |-> 0]]

Flat(n) == [i \in 0 .. n - 1 |-> 0]

\* static storage is zero-initialised at program start
StaticBuffers ==
    [gemmini_A |-> Square(DIM), gemmini_B |-> Square(DIM),
     gemmini_C |-> Square(DIM), gemmini_ref |-> Square(DIM),
     scalar_A |-> Flat(MAT_SIZE), scalar_B |-> Flat(MAT_SIZE),
     scalar_C |-> Flat(MAT_SIZE),
     vec_x |-> Flat(VEC_LEN), vec_y |-> Flat(VEC_LEN), vec_ref |-> Flat(VEC_LEN)]

\* rows of the accelerator's scratchpad that the model keeps
SpRows == 3 * DIM

\* an accelerator with a d x d mesh after reset, the 3 * d rows of its
\* scratchpad that the model keeps holding the value fill
Gemmini(d, fill) ==
    [queue |-> << >>,
     sp |-> [r \in 0 .. 3 * d - 1 |-> [j \in 0 .. d - 1 |-> fill]],
     ld_stride |-> 0, st_stride |-> 0, dataflow |-> "none", preload |-> -1,
     writers |-> [r \in 0 .. 3 * d - 1 |-> {}],
     mvoutRows |-> {}]

\* the accelerator after reset, its scratchpad holding the value fill
GemminiReset(fill) == Gemmini(DIM, fill)

\* the side of the mesh: a scratchpad row holds one row of a tile
MeshSide(sp) == Cardinality(DOMAIN sp[0])

Running == status = "running" /\ fn \in 1 .. Len(main(prog))

Cur == Body(main(prog)[fn])[pc]

At(op) == Running /\ Cur.op = op

Advance == pc' = pc + 1 /\ UNCHANGED ctl

\* a | b on non-negative ints
RECURSIVE BitOr(_, _)
BitOr(a, b) ==
    IF a = 0 THEN b
    ELSE IF b = 0 THEN a
    ELSE 2 * BitOr(a \div 2, b \div 2) + (IF a % 2 = 1 \/ b % 2 = 1 THEN 1 ELSE 0)

\* ------------------------------------------------------- the accelerator
\* The accelerator executes the commands of its queue in issue order, each
\* some time after it was issued.
ClampInt8(v) == IF v > 127 THEN 127 ELSE IF v < -128 THEN -128 ELSE v

RECURSIVE GemDot(_, _, _, _, _)
GemDot(sp, arow, b, j, n) ==
    IF n = 0 THEN 0
    ELSE GemDot(sp, arow, b, j, n - 1) + sp[arow][n - 1] * sp[b + n - 1][j]

\* the tile the mesh writes for operands at rows a.. and b.., bias zero,
\* each cell off by the deviation dev of this hardware
GemTile(sp, a, b, dev) ==
    [r \in 0 .. MeshSide(sp) - 1 |-> [j \in 0 .. MeshSide(sp) - 1 |->
        ClampInt8(ClampInt8(GemDot(sp, a + r, b, j, MeshSide(sp))) + dev[r][j])]]

\* the rows of the scratchpad from base on replaced by tile, written for tag
SpWrite(g, base, tile, tag) ==
    [g EXCEPT
       !.sp = [r \in DOMAIN g.sp |->
                 IF r >= base /\ r < base + MeshSide(g.sp) THEN tile[r - base]
                 ELSE g.sp[r]],
       !.writers = [r \in DOMAIN g.writers |->
                 IF r >= base /\ r < base + MeshSide(g.sp) THEN g.writers[r] \cup {tag}
                 ELSE g.writers[r]]]

\* the effect of executing one command on the accelerator and on memory
GemExec(g, m, cmd, dev) ==
    CASE cmd.op = "gemmini_flush" ->
            [gem |-> [g EXCEPT !.writers = [r \in DOMAIN g.writers |-> {}],
                               !.mvoutRows = {}],
             mem |-> m]
      [] cmd.op = "gemmini_config_ld" ->
            [gem |-> [g EXCEPT !.ld_stride = cmd.args[1]], mem |-> m]
      [] cmd.op = "gemmini_config_st" ->
            [gem |-> [g EXCEPT !.st_stride = cmd.args[1]], mem |-> m]
      [] cmd.op = "gemmini_config_ex" ->
            [gem |-> [g EXCEPT !.dataflow = cmd.args[1]], mem |-> m]
      [] cmd.op = "gemmini_mvin" ->
            [gem |-> SpWrite(g, cmd.args[2], m[cmd.args[1]], cmd.args[1]), mem |-> m]
      [] cmd.op = "gemmini_preload_zeros" ->
            [gem |-> [g EXCEPT !.preload = cmd.args[1]], mem |-> m]
      [] cmd.op = "gemmini_compute_preloaded" ->
            [gem |-> SpWrite(g, g.preload,
                             GemTile(g.sp, cmd.args[1], cmd.args[2], dev), "result"),
             mem |-> m]
      [] cmd.op = "gemmini_mvout" ->
            [gem |-> [g EXCEPT !.mvoutRows =
                         @ \cup {r \in DOMAIN g.sp : r >= cmd.args[2]
                                                     /\ r < cmd.args[2] + MeshSide(g.sp)}],
             mem |-> [m EXCEPT ![cmd.args[1]] =
                         [r \in 0 .. MeshSide(g.sp) - 1 |-> g.sp[cmd.args[2] + r]]]]

\* gemmini_fence returns only when no issued command is outstanding
FenceReturns(g) == g.queue = << >>

\* the command a gemmini_* statement issues, scratchpad addresses resolved
\* from the local variables
Command(ins, l) ==
    [op |-> ins.op,
     args |-> CASE ins.op \in {"gemmini_mvin", "gemmini_mvout"} ->
                      << ins.args[1], l[ins.args[2]] >>
                [] ins.op = "gemmini_preload_zeros" -> << l[ins.args[1]] >>
                [] ins.op = "gemmini_compute_preloaded" ->
                      << l[ins.args[1]], l[ins.args[2]] >>
                [] OTHER -> ins.args]

IssuedOps == {"gemmini_flush", "gemmini_config_ld", "gemmini_config_st",
              "gemmini_mvin", "gemmini_config_ex", "gemmini_preload_zeros",
              "gemmini_compute_preloaded", "gemmini_mvout"}

\* ---------------------------------------------------------------- actions
InitVectorInt32 ==
    /\ At("init_vector_int32")
    /\ mem' = [mem EXCEPT ![Cur.args[1]] =
                  init_vector_int32(@, Cur.args[2], Cur.args[3])]
    /\ Advance
    /\ UNCHANGED << loc, csrs, console, divByZero, accel, frame >>

InitMatrixInt32 ==
    /\ At("init_matrix_int32")
    /\ mem' = [mem EXCEPT ![Cur.args[1]] =
                  init_matrix_int32(@, Cur.args[2], Cur.args[3])]
    /\ Advance
    /\ UNCHANGED << loc, csrs, console, divByZero, accel, frame >>

ZeroMatrixInt32 ==
    /\ At("zero_matrix_int32")
    /\ mem' = [mem EXCEPT ![Cur.args[1]] = zero_matrix_int32(@, Cur.args[2])]
    /\ Advance
    /\ UNCHANGED << loc, csrs, console, divByZero, accel, frame >>

InitMatrixInt8 ==
    /\ At("init_matrix_int8")
    /\ mem' = [mem EXCEPT ![Cur.args[1]] = init_matrix_int8(@, Cur.args[2])]
    /\ Advance
    /\ UNCHANGED << loc, csrs, console, divByZero, accel, frame >>

ZeroMatrixInt8 ==
    /\ At("zero_matrix_int8")
    /\ mem' = [mem EXCEPT ![Cur.args[1]] = zero_matrix_int8(@)]
    /\ Advance
    /\ UNCHANGED << loc, csrs, console, divByZero, accel, frame >>

\* for (i = 0; i < VEC_LEN; i++) vec_ref[i] = vec_y[i];
CopyVector ==
    /\ At("copy_vector")
    /\ mem' = [mem EXCEPT ![Cur.args[1]] =
                  [i \in DOMAIN @ |-> IF i < Cur.args[3] THEN mem[Cur.args[2]][i] ELSE @[i]]]
    /\ Advance
    /\ UNCHANGED << loc, csrs, console, divByZero, accel, frame >>

ScalarSaxpy ==
    /\ At("scalar_saxpy")
    /\ mem' = [mem EXCEPT ![Cur.args[3]] =
                  scalar_saxpy(Cur.args[1], mem[Cur.args[2]], @, Cur.args[4])]
    /\ Advance
    /\ UNCHANGED << loc, csrs, console, divByZero, accel, frame >>

ScalarMatmulInt32 ==
    /\ At("scalar_matmul_int32")
    /\ mem' = [mem EXCEPT ![Cur.args[3]] =
                  scalar_matmul_int32(mem[Cur.args[1]], mem[Cur.args[2]], @, Cur.args[4])]
    /\ Advance
    /\ UNCHANGED << loc, csrs, console, divByZero, accel, frame >>

ScalarMatmulInt8 ==
    /\ At("scalar_matmul_int8")
    /\ mem' = [mem EXCEPT ![Cur.args[3]] =
                  scalar_matmul_int8(mem[Cur.args[1]], mem[Cur.args[2]], @)]
    /\ Advance
    /\ UNCHANGED << loc, csrs, console, divByZero, accel, frame >>

\* the bit set by an addition: mstatus += (1UL << 9)
enable_vector_extension_add(m) == m + 512

\* mstatus |= (1UL << 9)
enable_vector_extension(m) == BitOr(m, 512)

\* MSTATUS.VS, bits [10:9]
MstatusVS(m) == (m \div 512) % 4

EnableVectorExtension ==
    /\ At("enable_vector_extension")
    /\ mstatus' = enable_vector_extension(mstatus)
    /\ Advance
    /\ UNCHANGED << loc, mem, mcycle, minstret, console, divByZero, accel, frame >>

\* what a vector unit that gets its first bad elements wrong leaves in y
AraStored(y, bad) == [i \in DOMAIN y |-> IF i < bad THEN y[i] + 1 ELSE y[i]]

\* a vector instruction executed with MSTATUS.VS = Off raises an illegal
\* instruction exception
AraVectorSaxpy ==
    /\ At("ara_vector_saxpy")
    /\ IF MstatusVS(mstatus) = 0
       THEN /\ status' = "trapped"
            /\ UNCHANGED << fn, pc, result, exitCode, returns, mem >>
       ELSE /\ \E grant \in 1 .. VLMAX :
                 mem' = [mem EXCEPT ![Cur.args[3]] =
                           AraStored(ara_vector_saxpy(Cur.args[1], mem[Cur.args[2]], @,
                                                      0, Cur.args[4], grant),
                                     hw.araBad)]
            /\ Advance
    /\ UNCHANGED << loc, csrs, console, divByZero, accel, frame >>

\* x = read_csr_mcycle(): the counter is free-running and never decreases
ReadCsrMcycle ==
    /\ At("read_csr_mcycle")
    /\ \E t \in mcycle .. MaxCycle :
          /\ mcycle' = t
          /\ loc' = [loc EXCEPT ![Cur.args[1]] = t]
    /\ Advance
    /\ UNCHANGED << mem, mstatus, minstret, console, divByZero, accel, frame >>

ReadCsrMinstret ==
    /\ At("read_csr_minstret")
    /\ \E t \in minstret .. MaxCycle :
          /\ minstret' = t
          /\ loc' = [loc EXCEPT ![Cur.args[1]] = t]
    /\ Advance
    /\ UNCHANGED << mem, mstatus, mcycle, console, divByZero, accel, frame >>

\* x_cycles = read_csr_mcycle() - start;
CyclesSince ==
    /\ At("cycles_since")
    /\ \E t \in mcycle .. MaxCycle :
          /\ mcycle' = t
          /\ loc' = [loc EXCEPT ![Cur.args[1]] = t - loc[Cur.args[2]]]
    /\ Advance
    /\ UNCHANGED << mem, mstatus, minstret, console, divByZero, accel, frame >>

\* uint64_t cycles = end_cycles - start_cycles;
Subtract ==
    /\ At("subtract")
    /\ loc' = [loc EXCEPT ![Cur.args[1]] = loc[Cur.args[2]] - loc[Cur.args[3]]]
    /\ Advance
    /\ UNCHANGED << mem, csrs, console, divByZero, accel, frame >>

\* printf("  Cycles: %llu\n", end - start);
PrintCycles ==
    /\ At("print_cycles")
    /\ console' = Append(console, << "Cycles" >>)
    /\ Advance
    /\ UNCHANGED << loc, mem, csrs, divByZero, accel, frame >>

PrintLine ==
    /\ At("print")
    /\ console' = Append(console, << Cur.args[1] >>)
    /\ Advance
    /\ UNCHANGED << loc, mem, csrs, divByZero, accel, frame >>

SpAddrs ==
    /\ At("sp_addrs")
    /\ loc' = [loc EXCEPT !["A_sp"] = Cur.args[1], !["B_sp"] = Cur.args[2],
                          !["C_sp"] = Cur.args[3]]
    /\ Advance
    /\ UNCHANGED << mem, csrs, console, divByZero, accel, frame >>

\* a gemmini_* statement other than the fence: the command is handed to the
\* accelerator and the core goes on
GemminiIssue ==
    /\ Running
    /\ Cur.op \in IssuedOps
    /\ gem' = [gem EXCEPT !.queue = Append(@, Command(Cur, loc))]
    /\ issued' = Append(issued, Command(Cur, loc))
    /\ Advance
    /\ UNCHANGED << loc, mem, csrs, console, divByZero, frame >>

GemminiFence ==
    /\ At("gemmini_fence")
    /\ FenceReturns(gem)
    /\ issued' = Append(issued, Command(Cur, loc))
    /\ Advance
    /\ UNCHANGED << loc, mem, csrs, console, divByZero, gem, frame >>

\* the accelerator executes the oldest outstanding command
GemminiComplete ==
    /\ gem.queue # << >>
    /\ LET after == GemExec(gem, mem, Head(gem.queue), hw.gemDev)
       IN /\ gem' = [after.gem EXCEPT !.queue = Tail(gem.queue)]
          /\ mem' = after.mem
    /\ UNCHANGED << fn, pc, loc, result, status, exitCode, returns, csrs, console,
                    divByZero, issued, frame >>

VerifyAra ==
    /\ At("verify_ara")
    /\ LET st == verify_ara(mem[Cur.args[1]], mem[Cur.args[2]], Cur.args[3])
       IN /\ loc' = [loc EXCEPT !["errors"] = st.errors]
          /\ console' = console \o st.printed
    /\ Advance
    /\ UNCHANGED << mem, csrs, divByZero, accel, frame >>

VerifyGemmini ==
    /\ At("verify_gemmini")
    /\ LET st == verify_gemmini(mem[Cur.args[1]], mem[Cur.args[2]])
       IN /\ loc' = [loc EXCEPT !["errors"] = st.errors]
          /\ console' = console \o st.printed
    /\ Advance
    /\ UNCHANGED << mem, csrs, divByZero, accel, frame >>

\* if (errors == 0) printf(PASSED) else { printf(FAILED); return 1; }
ReturnIfErrors ==
    /\ At("return_if_errors")
    /\ IF loc["errors"] = 0
       THEN /\ console' = Append(console, << "Verification: PASSED" >>)
            /\ pc' = pc + 1
            /\ UNCHANGED << fn, result, returns, loc >>
       ELSE /\ console' = Append(console, << "Verification: FAILED", loc["errors"] >>)
            /\ result' = BitOr(result, Cur.args[1])
            /\ returns' = Append(returns, << main(prog)[fn], Cur.args[1] >>)
            /\ fn' = fn + 1
            /\ pc' = 1
            /\ loc' = NoLocals
    /\ UNCHANGED << status, exitCode, mem, csrs, divByZero, accel, frame >>

\* if (errors == 0) printf(first) [else printf(second)]
PrintVerdict ==
    /\ At("print_verdict")
    /\ console' = IF loc["errors"] = 0 THEN Append(console, << Cur.args[1] >>)
                  ELSE IF Cur.args[2] # "" THEN Append(console, << Cur.args[2] >>)
                  ELSE console
    /\ Advance
    /\ UNCHANGED << loc, mem, csrs, divByZero, accel, frame >>

\* return v; with main keeping the value of the last test only
Return_assign ==
    /\ At("return")
    /\ result' = Cur.args[1]
    /\ returns' = Append(returns, << main(prog)[fn], Cur.args[1] >>)
    /\ fn' = fn + 1
    /\ pc' = 1
    /\ loc' = NoLocals
    /\ UNCHANGED << status, exitCode, mem, csrs, console, divByZero, accel, frame >>

\* return v; and in main: result |= test();
Return ==
    /\ At("return")
    /\ result' = BitOr(result, Cur.args[1])
    /\ returns' = Append(returns, << main(prog)[fn], Cur.args[1] >>)
    /\ fn' = fn + 1
    /\ pc' = 1
    /\ loc' = NoLocals
    /\ UNCHANGED << status, exitCode, mem, csrs, console, divByZero, accel, frame >>

\* the decimal digit taken of the quotient: (num / den * 10) % 10
ratio_printed_digit_of_quotient(op, num, den) ==
    IF op = "print_speedup_tenths"
    THEN << "ratio", num \div den, ((num \div den) * 10) % 10 >>
    ELSE << "ratio", num \div den >>

\* what the three ratio statements print for a non-zero divisor:
\* num / den, and for the vector row also (num * 10 / den) % 10
ratio_printed(op, num, den) ==
    IF op = "print_speedup_tenths"
    THEN << "ratio", num \div den, ((num * 10) \div den) % 10 >>
    ELSE << "ratio", num \div den >>

\* scalar_cycles / accel_cycles and ops * 1000 / cycles: an unguarded
\* unsigned division. With a zero divisor the behaviour is undefined: the
\* program either traps or goes on with an unspecified quotient.
PrintRatio ==
    /\ Running
    /\ Cur.op \in {"print_speedup", "print_speedup_tenths", "ops_per_cycle"}
    /\ LET den == loc[Cur.args[2]]
           num == IF Cur.op = "ops_per_cycle" THEN Cur.args[1] ELSE loc[Cur.args[1]]
       IN IF den = 0
          THEN /\ divByZero' = TRUE
               /\ \E outcome \in {"trap", "continue"} :
                     IF outcome = "trap"
                     THEN /\ status' = "trapped"
                          /\ UNCHANGED << fn, pc, result, exitCode, returns, console >>
                     ELSE /\ console' = Append(console, << "ratio", "unspecified" >>)
                          /\ Advance
          ELSE /\ console' = Append(console, ratio_printed(Cur.op, num, den))
               /\ Advance
               /\ UNCHANGED divByZero
    /\ UNCHANGED << loc, mem, csrs, accel, frame >>

\* the banner and exit(result)
MainExit ==
    /\ status = "running"
    /\ fn = Len(main(prog)) + 1
    /\ console' = Append(console, IF result = 0 THEN << "ALL TESTS PASSED" >>
                                  ELSE << "SOME TESTS FAILED" >>)
    /\ exitCode' = result
    /\ status' = "exited"
    /\ UNCHANGED << fn, pc, loc, result, returns, mem, csrs, divByZero, accel, frame >>

\* ------------------------------------------------------------ hardware
\* deviation of the mesh output: v in the first k cells (row-major), else 0
DevMatrix(k, v) ==
    [i \in 0 .. DIM - 1 |-> [j \in 0 .. DIM - 1 |-> IF i * DIM + j < k THEN v ELSE 0]]

Hardware ==
    [araBad : {0, 1},
     gemDev : {DevMatrix(k, v) : k \in {0, DIM * DIM}, v \in {1, 2}},
     spFill : {0, 7}]

MstatusReset == {8, 1544}

\* in how many respects a run departs from the nominal one: a vector unit
\* storing wrong elements, a mesh off in its output, a scratchpad holding
\* old data, the vector state already on at reset
Deviations(h, m) ==
    (IF h.araBad # 0 THEN 1 ELSE 0) + (IF h.gemDev # DevMatrix(0, 0) THEN 1 ELSE 0)
    + (IF h.spFill # 0 THEN 1 ELSE 0) + (IF m # 8 THEN 1 ELSE 0)

\* ------------------------------------------------------- specification
Init ==
    /\ prog \in Programs
    /\ hw \in Hardware
    /\ fn = 1
    /\ pc = 1
    /\ loc = NoLocals
    /\ result = 0
    /\ status = "running"
    /\ exitCode = -1
    /\ mem = StaticBuffers
    /\ mstatus \in MstatusReset
    \* the second program executes no vector instruction
    /\ prog = "ara_gemmini_compare" => hw.araBad = 0 /\ mstatus = 8
    \* a run departs from the nominal one in at most one respect
    /\ Deviations(hw, mstatus) <= 1
    /\ mcycle = 0
    /\ minstret = 0
    /\ console = << >>
    /\ divByZero = FALSE
    /\ gem = GemminiReset(hw.spFill)
    /\ issued = << >>
    /\ returns = << >>
    /\ fIn = << >>
    /\ fOut = << >>
    /\ fPc = "driver"

Next ==
    \/ InitVectorInt32
    \/ InitMatrixInt32
    \/ ZeroMatrixInt32
    \/ InitMatrixInt8
    \/ ZeroMatrixInt8
    \/ CopyVector
    \/ ScalarSaxpy
    \/ ScalarMatmulInt32
    \/ ScalarMatmulInt8
    \/ EnableVectorExtension
    \/ AraVectorSaxpy
    \/ ReadCsrMcycle
    \/ ReadCsrMinstret
    \/ CyclesSince
    \/ Subtract
    \/ PrintCycles
    \/ PrintLine
    \/ SpAddrs
    \/ GemminiIssue
    \/ GemminiFence
    \/ GemminiComplete
    \/ VerifyAra
    \/ VerifyGemmini
    \/ ReturnIfErrors
    \/ PrintVerdict
    \/ Return
    \/ PrintRatio
    \/ MainExit

Spec == Init /\ [][Next]_vars

\* the core executes its next statement and the accelerator its next command
SpecLive == Spec /\ WF_vars(Next)

\* ================================================================ claims
CycleReads == {"read_csr_mcycle", "cycles_since"}

TransferOps == {"gemmini_mvin", "gemmini_compute_preloaded", "gemmini_mvout"}

\* the nine commands of one accelerator test, in the order of section 4.5
ProtocolOps ==
    << "gemmini_config_ld", "gemmini_config_st", "gemmini_mvin", "gemmini_mvin",
       "gemmini_config_ex", "gemmini_preload_zeros", "gemmini_compute_preloaded",
       "gemmini_mvout", "gemmini_fence" >>

NotFlush(cmd) == cmd.op # "gemmini_flush"

\* the commands issued so far, flushes left out
Protocol == SelectSeq(issued, NotFlush)

\* the k-th command of Protocol is the one section 4.5 puts at that place,
\* with the operands of the driver: A then B moved in, the compute on the
\* two addresses moved to, the move-out from the preloaded address
InProtocolOrder(k) ==
    LET p == ((k - 1) % 9) + 1
        c == Protocol[k]
    IN /\ c.op = ProtocolOps[p]
       /\ p = 3 => c.args[1] = "gemmini_A"
       /\ p = 4 => c.args[1] = "gemmini_B"
       /\ p = 5 => c.args = << "OUTPUT_STATIONARY", 0, 0 >>
       /\ p = 7 => c.args = << Protocol[k - 4].args[2], Protocol[k - 3].args[2] >>
       /\ p = 8 => c.args = << "gemmini_C", Protocol[k - 2].args[1] >>

\* C1: in every accelerator test the commands are issued in the order
\* config_ld, config_st, mvin(A), mvin(B), config_ex(OS, 0, 0),
\* preload_zeros(C), compute_preloaded(A, B), mvout(C), fence, with no other
\* accelerator command (a flush included) between them; every test that
\* ran to its end issued all nine.
C1_ProtocolOrder ==
    /\ \A k \in 1 .. Len(Protocol) : InProtocolOrder(k)
    /\ \A k \in 2 .. Len(issued) :
          issued[k].op = "gemmini_flush" =>
             issued[k - 1].op \in {"gemmini_fence", "gemmini_flush"}
    /\ status = "exited" => Len(Protocol) = 18

\* both accelerator tests of ara_gemmini_scalar_compare have issued their fence
C1_Witness ==
    /\ prog = "ara_gemmini_scalar_compare"
    /\ status = "exited"
    /\ Len(Protocol) = 18
    /\ Protocol[18].op = "gemmini_fence"

AnyMismatchPrinted == \E k \in 1 .. Len(console) : console[k][1] = "MISMATCH"

\* C2: the exit code is non-zero if and only if a verifying phase found a
\* mismatch.
C2_ExitCodeReflectsMismatch ==
    status = "exited" => (exitCode # 0 <=> AnyMismatchPrinted)

\* the statement at index k of body is a cycle-counter read that ends a
\* phase in which accelerator commands were issued
EndsAccelPhase(body, k) ==
    /\ body[k].op \in CycleReads
    /\ \E j \in 1 .. k - 1 :
          /\ body[j].op \in TransferOps
          /\ \A m \in j + 1 .. k - 1 : body[m].op \notin CycleReads

Outstanding == \E k \in 1 .. Len(gem.queue) : gem.queue[k].op \in TransferOps

\* C3: when the driver is about to sample the end counter of an accelerator
\* phase, or to read gemmini_C for verification, no issued mvin, compute or
\* mvout is outstanding.
C3_FenceBeforeSample ==
    (Running /\ (EndsAccelPhase(Body(main(prog)[fn]), pc) \/ Cur.op = "verify_gemmini"))
        => ~Outstanding

\* the driver stands at the end-counter read of an accelerator phase, all
\* commands of the phase issued
C3_Witness ==
    /\ Running
    /\ EndsAccelPhase(Body(main(prog)[fn]), pc)
    /\ Len(issued) > 0
    /\ issued[Len(issued)].op = "gemmini_fence"

Rows(base, d) == base .. base + d - 1

LayoutDisjoint(l, d) ==
    /\ Rows(l[1], d) \cap Rows(l[2], d) = {}
    /\ Rows(l[1], d) \cap Rows(l[3], d) = {}
    /\ Rows(l[2], d) \cap Rows(l[3], d) = {}

\* largest tile side for which the scratchpad layouts are compared
MaxTile == 8

\* C4: the row ranges of A, B and C are pairwise disjoint for every tile
\* side; no scratchpad row is written for two different matrices, and no
\* row the move-out reads was written by a move-in.
C4_RegionsDisjoint ==
    /\ \A d \in 1 .. MaxTile :
          /\ LayoutDisjoint(tgp_sp_addrs(d), d)
          /\ LayoutDisjoint(tc_sp_addrs(d), d)
          /\ LayoutDisjoint(tgm_sp_addrs(d), d)
          /\ LayoutDisjoint(tpc_sp_addrs(d), d)
    /\ \A r \in DOMAIN gem.writers :
          /\ Cardinality(gem.writers[r]) <= 1
          /\ r \in gem.mvoutRows => gem.writers[r] = {"result"}

\* the accelerator has executed both move-ins, the compute and the move-out
C4_Witness ==
    /\ gem.mvoutRows # {}
    /\ \E r \in DOMAIN gem.writers : gem.writers[r] = {"gemmini_A"}
    /\ \E r \in DOMAIN gem.writers : gem.writers[r] = {"gemmini_B"}
    /\ \E r \in DOMAIN gem.writers : gem.writers[r] = {"result"}

\* C7: the reporting code never executes a division by zero.
C7_NoDivisionByZero == divByZero = FALSE

\* ============================================ kernels checked stand-alone
\* The driver does not run in these specifications.
DriverIdle ==
    /\ prog = "ara_gemmini_compare"
    /\ hw = [araBad |-> 0, gemDev |-> DevMatrix(0, 0), spFill |-> 0]
    /\ fn = 0
    /\ pc = 0
    /\ loc = NoLocals
    /\ result = 0
    /\ status = "idle"
    /\ exitCode = -1
    /\ mem = StaticBuffers
    /\ mstatus = 8
    /\ mcycle = 0
    /\ minstret = 0
    /\ console = << >>
    /\ divByZero = FALSE
    /\ gem = GemminiReset(0)
    /\ issued = << >>
    /\ returns = << >>

driver == << prog, hw, fn, pc, loc, result, status, exitCode, mem, mstatus, mcycle,
             minstret, console, divByZero, gem, issued, returns >>

\* d x d matrices with the value p on the cells of a pattern and q elsewhere
PatternHit(pat, d, i, j) ==
    CASE pat = "all" -> TRUE
      [] pat = "first" -> i = 0 /\ j = 0
      [] pat = "checker" -> (i + j) % 2 = 0
      [] pat = "lastrow" -> i = d - 1

PatternMatrix(pat, d, p, q) ==
    [i \in 0 .. d - 1 |-> [j \in 0 .. d - 1 |-> IF PatternHit(pat, d, i, j) THEN p ELSE q]]

PatternMatrices(pats, d, vals) ==
    {PatternMatrix(pat, d, p, q) : pat \in pats, p \in vals, q \in vals}

\* n-vectors with the value p below index k and q from k on
StepVector(n, k, p, q) == [i \in 0 .. n - 1 |-> IF i < k THEN p ELSE q]

\* ---------------------------------------------------- verification passes
\* length of the vectors given to the vector verification pass
VerifyLen == 7

VerifyCells == {-128, -1, 0, 1, 127}

InitVerify ==
    /\ DriverIdle
    /\ \/ /\ fPc = "verify_gemmini"
          /\ fIn \in [C : PatternMatrices({"all", "first", "checker", "lastrow"}, DIM,
                                          VerifyCells),
                      ref : PatternMatrices({"all", "checker"}, DIM, VerifyCells)]
       \/ /\ fPc = "verify_ara"
          /\ fIn \in [y : {StepVector(VerifyLen, k, p, 0) :
                              k \in 0 .. VerifyLen, p \in {-1, 1, 50}},
                      ref : {StepVector(VerifyLen, 0, 0, q) : q \in {0, 1}},
                      n : 0 .. VerifyLen]
    /\ fOut = VerifyStart

RunVerifyGemmini ==
    /\ fPc = "verify_gemmini"
    /\ fOut' = verify_gemmini(fIn.C, fIn.ref)
    /\ fPc' = "verified_gemmini"
    /\ UNCHANGED << fIn, driver >>

RunVerifyAra ==
    /\ fPc = "verify_ara"
    /\ fOut' = verify_ara(fIn.y, fIn.ref, fIn.n)
    /\ fPc' = "verified_ara"
    /\ UNCHANGED << fIn, driver >>

NextVerify == RunVerifyGemmini \/ RunVerifyAra

SpecVerify == InitVerify /\ [][NextVerify]_vars

\* the cells of the accelerator result that are out of tolerance
OutOfTolerance == {c \in (0 .. DIM - 1) \X (0 .. DIM - 1) :
                      Abs(fIn.C[c[1]][c[2]] - fIn.ref[c[1]][c[2]]) > 1}

ReportedCells == {<< fOut.printed[k][2], fOut.printed[k][3] >> : k \in 1 .. Len(fOut.printed)}

\* C5: a visited cell is reported and counted as a mismatch if and only if
\* |gemmini_C[i][j] - gemmini_ref[i][j]| > 1, the difference taken as an
\* integer without wraparound.
C5_ToleranceIsOne ==
    fPc = "verified_gemmini" =>
       /\ \A c \in fOut.visited : c \in ReportedCells <=> c \in OutOfTolerance
       /\ ReportedCells \subseteq fOut.visited
       /\ fOut.errors = Cardinality(fOut.visited \cap OutOfTolerance)

\* a pass that visited a cell off by exactly one (not reported) and a cell
\* off by 255 (reported)
C5_Witness ==
    /\ fPc = "verified_gemmini"
    /\ \E c \in fOut.visited :
          fIn.C[c[1]][c[2]] - fIn.ref[c[1]][c[2]] = -1 /\ c \notin ReportedCells
    /\ \E c \in fOut.visited :
          fIn.C[c[1]][c[2]] - fIn.ref[c[1]][c[2]] = 255 /\ c \in ReportedCells

\* C6: the error count of a verification pass is the total number of cells
\* (elements) that differ from the reference by more than the tolerance.
C6_CountsAllMismatches ==
    /\ fPc = "verified_gemmini" => fOut.errors = Cardinality(OutOfTolerance)
    /\ fPc = "verified_ara" =>
          fOut.errors = Cardinality({i \in 0 .. fIn.n - 1 : fIn.y[i] # fIn.ref[i]})

\* ------------------------------------------------- saturating int8 matmul
MatmulCells == {-128, -8, 0, 7, 127}

InitMatmul ==
    /\ DriverIdle
    /\ fPc = "scalar_matmul_int8"
    /\ fIn \in [A : PatternMatrices({"all", "checker", "lastrow"}, DIM, MatmulCells),
                B : PatternMatrices({"all", "checker", "lastrow"}, DIM, MatmulCells),
                C : {PatternMatrix("all", DIM, 99, 99)}]
    /\ fOut = fIn

RunScalarMatmulInt8 ==
    /\ fPc = "scalar_matmul_int8"
    /\ fOut' = [fIn EXCEPT !.C = scalar_matmul_int8(fIn.A, fIn.B, fIn.C)]
    /\ fPc' = "multiplied"
    /\ UNCHANGED << fIn, driver >>

NextMatmul == RunScalarMatmulInt8

SpecMatmul == InitMatmul /\ [][NextMatmul]_vars

\* the mathematical sum of A[i][k] * B[k][j] over the indices k in ks
RECURSIVE SumProducts(_, _, _, _, _)
SumProducts(A, B, i, j, ks) ==
    IF ks = {} THEN 0
    ELSE LET k == CHOOSE x \in ks : TRUE
         IN A[i][k] * B[k][j] + SumProducts(A, B, i, j, ks \ {k})

Clamp(v, lo, hi) == IF v < lo THEN lo ELSE IF v > hi THEN hi ELSE v

\* C8: scalar_matmul_int8 stores clamp(sum_k A[i][k]*B[k][j], -128, 127) in
\* every cell; every partial sum stays inside the 32-bit accumulator, the
\* stored value is the clamped value itself, and A and B are left unchanged.
C8_SaturatingMatmul ==
    fPc = "multiplied" =>
       /\ \A i, j \in 0 .. DIM - 1 :
             /\ fOut.C[i][j] = Clamp(SumProducts(fIn.A, fIn.B, i, j, 0 .. DIM - 1), -128, 127)
             /\ \A n \in 0 .. DIM :
                   /\ DotInt8(fIn.A, fIn.B, i, j, n) = SumProducts(fIn.A, fIn.B, i, j, 0 .. n - 1)
                   /\ Abs(DotInt8(fIn.A, fIn.B, i, j, n)) <= n * 128 * 128
       /\ InInt32(DIM * 128 * 128)
       /\ fOut.A = fIn.A
       /\ fOut.B = fIn.B

\* a row of +7 against a column of +7: the sum 49 * DIM exceeds 127 and the
\* cell holds 127; and a sum below -128 stored as -128
C8_Witness ==
    /\ fPc = "multiplied"
    /\ DIM >= 3
    /\ \A k \in 0 .. DIM - 1 : fIn.A[0][k] = 7 /\ fIn.B[k][0] = 7
    /\ fOut.C[0][0] = 127
    /\ \E i, j \in 0 .. DIM - 1 :
          SumProducts(fIn.A, fIn.B, i, j, 0 .. DIM - 1) < -128 /\ fOut.C[i][j] = -128

\* ------------------------------------------------------------ vector SAXPY
\* length of the vectors given to the SAXPY kernels
SaxpyLen == 5

RampVector(n, p, s) == [i \in 0 .. n - 1 |-> p + i * s]

InitSaxpy ==
    /\ DriverIdle
    /\ fPc = "ara_loop"
    /\ fIn \in [a : {-3, 0, 2},
                x : {RampVector(SaxpyLen, p, s) : p \in {-50, 0, 45}, s \in {0, 1}},
                y : {RampVector(SaxpyLen, p, s) : p \in {-10, 20}, s \in {0, -2}},
                n : 0 .. SaxpyLen]
    /\ fOut = [y |-> fIn.y, off |-> 0, n |-> fIn.n, chunks |-> << >>]

\* one iteration that leaves x and y where they were: n -= vl only
AraIteration_pointers_not_advanced ==
    /\ fPc = "ara_loop"
    /\ fOut.n > 0
    /\ \E vl \in vsetvli(fOut.n) :
          fOut' = [y      |-> ara_chunk(fIn.a, fIn.x, fOut.y, fOut.off, vl),
                   off    |-> fOut.off,
                   n      |-> fOut.n - vl,
                   chunks |-> Append(fOut.chunks, vl)]
    /\ UNCHANGED << fPc, fIn, driver >>

\* one iteration of while (n > 0): vsetvli, the five vector instructions,
\* x += vl; y += vl; n -= vl
AraIteration ==
    /\ fPc = "ara_loop"
    /\ fOut.n > 0
    /\ \E vl \in vsetvli(fOut.n) :
          fOut' = [y      |-> ara_chunk(fIn.a, fIn.x, fOut.y, fOut.off, vl),
                   off    |-> fOut.off + vl,
                   n      |-> fOut.n - vl,
                   chunks |-> Append(fOut.chunks, vl)]
    /\ UNCHANGED << fPc, fIn, driver >>

AraLoopExit ==
    /\ fPc = "ara_loop"
    /\ fOut.n = 0
    /\ fPc' = "ara_returned"
    /\ UNCHANGED << fIn, fOut, driver >>

NextSaxpy == AraIteration \/ AraLoopExit

SpecSaxpy == InitSaxpy /\ [][NextSaxpy]_vars

\* the loop is not suspended for ever: the core goes on executing it
SpecSaxpyLive == SpecSaxpy /\ WF_vars(NextSaxpy)

\* C9: whatever chunk lengths the vector unit grants, ara_vector_saxpy
\* leaves in y exactly what scalar_saxpy(a, x, y, n) leaves there.
C9_VectorEqualsScalar ==
    fPc = "ara_returned" => fOut.y = scalar_saxpy(fIn.a, fIn.x, fIn.y, fIn.n)

\* a run over more elements than one register holds, not a multiple of
\* VLMAX, in uneven chunks, that changed y
C9_Witness ==
    /\ fPc = "ara_returned"
    /\ fIn.n > VLMAX
    /\ fIn.n % VLMAX # 0
    /\ \E k \in 1 .. Len(fOut.chunks) - 1 : fOut.chunks[k] < fOut.chunks[k + 1]
    /\ \E i \in 0 .. fIn.n - 1 : fOut.y[i] # fIn.y[i]

\* --------------------------------------------------------- data generators
\* seeds as << low half, high half >>
InitSeeds == { << 0, 0 >>, << 1, 0 >>, << 4660, 0 >>, << 22136, 0 >>, << 39612, 0 >>,
               << 65535, 32767 >>, << 0, 32768 >>, << 65535, 65535 >> }

InitInit ==
    /\ DriverIdle
    /\ fPc = "init"
    /\ \/ fIn \in [kind : {"init_matrix_int8"}, seed : InitSeeds,
                   buf : {PatternMatrix("all", DIM, 99, 99)}, len : {DIM * DIM}]
       \/ fIn \in [kind : {"init_matrix_int32"}, seed : InitSeeds,
                   buf : {RampVector(MAT_SIZE + 1, 99, 0)}, len : 0 .. MAT_SIZE]
       \/ fIn \in [kind : {"init_vector_int32"}, seed : InitSeeds,
                   buf : {RampVector(VEC_LEN + 1, 99, 0)}, len : 0 .. VEC_LEN]
    /\ fOut = fIn.buf

RunInitMatrixInt8 ==
    /\ fPc = "init"
    /\ fIn.kind = "init_matrix_int8"
    /\ fOut' = init_matrix_int8(fIn.buf, fIn.seed)
    /\ fPc' = "initialised"
    /\ UNCHANGED << fIn, driver >>

RunInitMatrixInt32 ==
    /\ fPc = "init"
    /\ fIn.kind = "init_matrix_int32"
    /\ fOut' = init_matrix_int32(fIn.buf, fIn.len, fIn.seed)
    /\ fPc' = "initialised"
    /\ UNCHANGED << fIn, driver >>

RunInitVectorInt32 ==
    /\ fPc = "init"
    /\ fIn.kind = "init_vector_int32"
    /\ fOut' = init_vector_int32(fIn.buf, fIn.len, fIn.seed)
    /\ fPc' = "initialised"
    /\ UNCHANGED << fIn, driver >>

NextInit == RunInitMatrixInt8 \/ RunInitMatrixInt32 \/ RunInitVectorInt32

SpecInit == InitInit /\ [][NextInit]_vars

\* (seed + k) mod m for the seed hi * 2^16 + lo, by modular arithmetic
SeedPlusMod(seed, k, m) == ((seed[2] % m) * (Limb % m) + (seed[1] % m) + k) % m

\* C10: every element a generator stores is the signed value of its formula,
\* ((seed + i*DIM + j) mod 16) - 8, ((seed + i) mod 64) - 32 or
\* ((seed + i) mod 100) - 50, inside [-8,7], [-32,31] or [-50,49], for every
\* 32-bit seed; no element at an index at or beyond the length is written.
C10_GeneratorFormula ==
    fPc = "initialised" =>
       /\ fIn.kind = "init_matrix_int8" =>
             \A i, j \in 0 .. DIM - 1 :
                /\ fOut[i][j] = SeedPlusMod(fIn.seed, i * DIM + j, 16) - 8
                /\ fOut[i][j] \in -8 .. 7
       /\ fIn.kind = "init_matrix_int32" =>
             \A i \in DOMAIN fOut :
                IF i < fIn.len
                THEN fOut[i] = SeedPlusMod(fIn.seed, i, 64) - 32 /\ fOut[i] \in -32 .. 31
                ELSE fOut[i] = fIn.buf[i]
       /\ fIn.kind = "init_vector_int32" =>
             \A i \in DOMAIN fOut :
                IF i < fIn.len
                THEN fOut[i] = SeedPlusMod(fIn.seed, i, 100) - 50 /\ fOut[i] \in -50 .. 49
                ELSE fOut[i] = fIn.buf[i]

\* the vector generator run with the seed 2^32 - 1 on fewer elements than the
\* buffer holds: seed + i passes 2^32 and the element past the end is kept
C10_Witness ==
    /\ fPc = "initialised"
    /\ fIn.kind = "init_vector_int32"
    /\ fIn.seed = << 65535, 65535 >>
    /\ fIn.len = VEC_LEN
    /\ fOut[0] = 45
    /\ fOut[1] = 46
    /\ fOut[VEC_LEN] = fIn.buf[VEC_LEN]

\* ------------------------------------------- generators invoked repeatedly
\* number of invocations of a generator on one buffer
MaxRuns == 2

\* what a buffer may hold before a generator is invoked on it
PriorBuffers(kind) ==
    IF kind = "init_matrix_int8"
    THEN {PatternMatrix("all", DIM, 0, 0), PatternMatrix("all", DIM, 99, 99),
          PatternMatrix("checker", DIM, -128, 127)}
    ELSE LET n == IF kind = "init_matrix_int32" THEN MAT_SIZE ELSE VEC_LEN
         IN {RampVector(n + 1, 0, 0), RampVector(n + 1, 99, 0), RampVector(n + 1, -7, 3)}

\* the call of the generator kind on buf
generate(kind, buf, len, seed) ==
    CASE kind = "init_matrix_int8" -> init_matrix_int8(buf, seed)
      [] kind = "init_matrix_int32" -> init_matrix_int32(buf, len, seed)
      [] kind = "init_vector_int32" -> init_vector_int32(buf, len, seed)

InitRegen ==
    /\ DriverIdle
    /\ fPc = "generate"
    /\ \/ fIn \in [kind : {"init_matrix_int8"}, seed : InitSeeds, len : {DIM * DIM}]
       \/ fIn \in [kind : {"init_matrix_int32"}, seed : InitSeeds, len : 0 .. MAT_SIZE]
       \/ fIn \in [kind : {"init_vector_int32"}, seed : InitSeeds, len : 0 .. VEC_LEN]
    /\ \E b \in PriorBuffers(fIn.kind) :
          fOut = [buf |-> b, first |-> b, priors |-> << b >>]

\* one invocation of the generator on the buffer as it is
Generate ==
    /\ fPc = "generate"
    /\ LET after == generate(fIn.kind, fOut.buf, fIn.len, fIn.seed)
       IN fOut' = [fOut EXCEPT !.buf = after,
                               !.first = IF Len(fOut.priors) = 1 THEN after ELSE @]
    /\ fPc' = "generated"
    /\ UNCHANGED << fIn, driver >>

\* the operations between two invocations leave anything in the buffer
Overwrite ==
    /\ fPc = "generated"
    /\ Len(fOut.priors) < MaxRuns
    /\ \E b \in PriorBuffers(fIn.kind) :
          fOut' = [fOut EXCEPT !.buf = b, !.priors = Append(@, b)]
    /\ fPc' = "generate"
    /\ UNCHANGED << fIn, driver >>

NextRegen == Generate \/ Overwrite

SpecRegen == InitRegen /\ [][NextRegen]_vars

\* the elements the generator owns: all of a matrix, the first len of a vector
Generated(kind, buf, len) ==
    IF kind = "init_matrix_int8" THEN buf
    ELSE [i \in {k \in DOMAIN buf : k < len} |-> buf[i]]

\* C11: an invocation of a generator with a given seed leaves the same
\* elements as the first invocation with that seed did, whatever the buffer
\* held before either invocation.
C11_GeneratorsDeterministic ==
    fPc = "generated" =>
       Generated(fIn.kind, fOut.buf, fIn.len) = Generated(fIn.kind, fOut.first, fIn.len)

\* a second invocation of the vector generator, on a buffer that held
\* something else than before the first one
C11_Witness ==
    /\ fPc = "generated"
    /\ fIn.kind = "init_vector_int32"
    /\ fIn.len = VEC_LEN
    /\ Len(fOut.priors) = 2
    /\ fOut.priors[1] # fOut.priors[2]
    /\ \A i \in 0 .. VEC_LEN - 1 : fOut.buf[i] # fOut.priors[2][i]

\* ---------------------------------------------------------- main's phases
\* the bitwise OR of the values of the first n returns
RECURSIVE OrOfReturns(_, _)
OrOfReturns(rs, n) == IF n = 0 THEN 0 ELSE BitOr(OrOfReturns(rs, n - 1), rs[n][2])

\* C12: the test functions return in main's order, each once, whatever the
\* earlier ones returned; result is the bitwise OR of the values returned so
\* far; exit is called after all of them, with that OR; a run stops short
\* of exit only in a division by zero.
C12_PhasesIndependent ==
    /\ Len(returns) = fn - 1
    /\ \A k \in 1 .. Len(returns) : returns[k][1] = main(prog)[k]
    /\ result = OrOfReturns(returns, Len(returns))
    /\ status = "exited" => Len(returns) = Len(main(prog)) /\ exitCode = result
    /\ status = "trapped" => divByZero

\* test_ara_performance returned 1, the two later tests ran and returned 0,
\* and exit was called with 1
C12_Witness ==
    /\ status = "exited"
    /\ returns = << << "test_scalar_performance", 0 >>, << "test_ara_performance", 1 >>,
                    << "test_gemmini_performance", 0 >>, << "test_comparison", 0 >> >>
    /\ exitCode = 1

\* the phase of the driver of ara_gemmini_scalar_compare, as a rank
PhaseRank ==
    IF status = "exited" THEN 6
    ELSE IF fn > Len(main(prog)) THEN 5
    ELSE IF fn = 1 /\ pc = 1 THEN 0
    ELSE CASE main(prog)[fn] = "test_scalar_performance" -> 1
           [] main(prog)[fn] = "test_ara_performance" -> 2
           [] main(prog)[fn] = "test_gemmini_performance" -> 3
           [] main(prog)[fn] = "test_comparison" -> 4
           [] OTHER -> 0

Banners == {<< "ALL TESTS PASSED" >>, << "SOME TESTS FAILED" >>}

PhaseStep == PhaseRank' = PhaseRank \/ PhaseRank' = PhaseRank + 1

FullDIM == 16

\* the accelerator part of test_gemmini_performance and test_gemmini_matmul
ScenarioProtocol(test) ==
    IF test = "test_gemmini_performance" THEN tgp_protocol ELSE tgm_protocol

ScenarioAddrs(test) ==
    LET l == IF test = "test_gemmini_performance" THEN tgp_sp_addrs(FullDIM)
             ELSE tgm_sp_addrs(FullDIM)
    IN [A_sp |-> l[1], B_sp |-> l[2], C_sp |-> l[3]]

InitScenario ==
    /\ DriverIdle
    /\ fPc = "flush"
    /\ fIn \in [test : {"test_gemmini_performance", "test_gemmini_matmul"},
                spFill : {0, 7}, before : {0, 5}]
    /\ fOut = [mem |-> [gemmini_A |-> PatternMatrix("all", FullDIM, fIn.before, 0),
                        gemmini_B |-> PatternMatrix("all", FullDIM, fIn.before, 0),
                        gemmini_C |-> PatternMatrix("all", FullDIM, fIn.before, 0),
                        gemmini_ref |-> PatternMatrix("all", FullDIM, fIn.before, 0)],
               gem |-> Gemmini(FullDIM, fIn.spFill),
               next |-> 1,
               verdict |-> VerifyStart,
               exitCode |-> -1]

\* gemmini_flush(0);
ScenarioFlush ==
    /\ fPc = "flush"
    /\ fOut' = [fOut EXCEPT !.gem.queue = Append(@, [op |-> "gemmini_flush", args |-> << 0 >>])]
    /\ fPc' = "init"
    /\ UNCHANGED << fIn, driver >>

\* the two generators, the two zeroings and the scalar reference
ScenarioData ==
    /\ fPc = "init"
    /\ LET A == init_matrix_int8(fOut.mem.gemmini_A, Seed(22136))
           B == init_matrix_int8(fOut.mem.gemmini_B, Seed(39612))
           Z == zero_matrix_int8(fOut.mem.gemmini_ref)
       IN fOut' = [fOut EXCEPT !.mem = [gemmini_A |-> A, gemmini_B |-> B,
                                        gemmini_C |-> zero_matrix_int8(fOut.mem.gemmini_C),
                                        gemmini_ref |-> scalar_matmul_int8(A, B, Z)]]
    /\ fPc' = "protocol"
    /\ UNCHANGED << fIn, driver >>

\* the statement of the protocol about to be executed
AtProtocol == fPc = "protocol" /\ fOut.next <= Len(ScenarioProtocol(fIn.test))

ScenarioIssue ==
    /\ AtProtocol
    /\ ScenarioProtocol(fIn.test)[fOut.next].op # "gemmini_fence"
    /\ fOut' = [fOut EXCEPT !.gem.queue =
                   Append(@, Command(ScenarioProtocol(fIn.test)[fOut.next],
                                     ScenarioAddrs(fIn.test))),
                            !.next = @ + 1]
    /\ UNCHANGED << fPc, fIn, driver >>

ScenarioFence ==
    /\ AtProtocol
    /\ ScenarioProtocol(fIn.test)[fOut.next].op = "gemmini_fence"
    /\ FenceReturns(fOut.gem)
    /\ fOut' = [fOut EXCEPT !.next = @ + 1]
    /\ UNCHANGED << fPc, fIn, driver >>

\* the accelerator executes its oldest command, without deviation
ScenarioComplete ==
    /\ fOut.gem.queue # << >>
    /\ LET after == GemExec(fOut.gem, fOut.mem, Head(fOut.gem.queue),
                            PatternMatrix("all", FullDIM, 0, 0))
       IN fOut' = [fOut EXCEPT !.gem = [after.gem EXCEPT !.queue = Tail(fOut.gem.queue)],
                               !.mem = after.mem]
    /\ UNCHANGED << fPc, fIn, driver >>

ScenarioVerify ==
    /\ fPc = "protocol"
    /\ fOut.next > Len(ScenarioProtocol(fIn.test))
    /\ fOut' = [fOut EXCEPT !.verdict = verify_gemmini(fOut.mem.gemmini_C,
                                                       fOut.mem.gemmini_ref)]
    /\ fPc' = "return"
    /\ UNCHANGED << fIn, driver >>

\* return 0; result |= ...; exit(result), the other tests having returned 0
ScenarioExit ==
    /\ fPc = "return"
    /\ fOut' = [fOut EXCEPT !.exitCode =
                   BitOr(0, Body(fIn.test)[Len(Body(fIn.test))].args[1])]
    /\ fPc' = "exited"
    /\ UNCHANGED << fIn, driver >>

NextScenario ==
    \/ ScenarioFlush
    \/ ScenarioData
    \/ ScenarioIssue
    \/ ScenarioFence
    \/ ScenarioComplete
    \/ ScenarioVerify
    \/ ScenarioExit

SpecScenario == InitScenario /\ [][NextScenario]_vars

\* C14: with the seeds 0x5678 and 0x9ABC and DIM = 16, after the protocol
\* on an accelerator that multiplies with saturation every one of the 256
\* cells of gemmini_C is within 1 of gemmini_ref, the verification visits
\* all of them and reports nothing, and the exit code is 0.
C14_EndToEnd ==
    fPc \in {"return", "exited"} =>
       /\ \A i, j \in 0 .. FullDIM - 1 :
             Abs(fOut.mem.gemmini_C[i][j] - fOut.mem.gemmini_ref[i][j]) <= 1
       /\ Cardinality(fOut.verdict.visited) = FullDIM * FullDIM
       /\ fOut.verdict.errors = 0
       /\ fOut.verdict.printed = << >>
       /\ fPc = "exited" => fOut.exitCode = 0

\* the run of test_gemmini_performance on a scratchpad that held other data:
\* 256 cells visited, the output being the product (-8 * B[0][j] in column j)
C14_Witness ==
    /\ fPc = "exited"
    /\ fIn.test = "test_gemmini_performance"
    /\ fIn.spFill = 7
    /\ Cardinality(fOut.verdict.visited) = 256
    /\ fOut.mem.gemmini_B[0][0] = 4
    /\ fOut.mem.gemmini_C[0][0] = -32
    /\ \E i, j \in 0 .. FullDIM - 1 : fOut.mem.gemmini_C[i][j] = 64

\* --------------------------------------- the accelerator sequence repeated
RerunProtocol(test) ==
    IF test = "test_gemmini_performance" THEN tgp_protocol ELSE tc_protocol

RerunAddrs(test) ==
    LET l == IF test = "test_gemmini_performance" THEN tgp_sp_addrs(DIM)
             ELSE tc_sp_addrs(DIM)
    IN [A_sp |-> l[1], B_sp |-> l[2], C_sp |-> l[3]]

RerunInputs ==
    {PatternMatrix("all", DIM, 7, 7), PatternMatrix("checker", DIM, -8, 7),
     PatternMatrix("lastrow", DIM, 3, -1), PatternMatrix("first", DIM, -128, 1)}

InitRerun ==
    /\ DriverIdle
    /\ fPc = "flush"
    /\ fIn \in [test : {"test_gemmini_performance", "test_comparison"},
                A : RerunInputs, B : RerunInputs, spFill : {0, 7}]
    /\ fOut = [mem |-> [gemmini_A |-> fIn.A, gemmini_B |-> fIn.B,
                        gemmini_C |-> PatternMatrix("all", DIM, 5, 5)],
               gem |-> Gemmini(DIM, fIn.spFill),
               next |-> 1,
               outputs |-> << >>]

\* gemmini_flush(0);
RerunFlush ==
    /\ fPc = "flush"
    /\ fOut' = [fOut EXCEPT !.gem.queue = Append(@, [op |-> "gemmini_flush", args |-> << 0 >>])]
    /\ fPc' = "zero"
    /\ UNCHANGED << fIn, driver >>

\* zero_matrix_int8(gemmini_C); the inputs are the same as before
RerunZero ==
    /\ fPc = "zero"
    /\ fOut' = [fOut EXCEPT !.mem.gemmini_C = zero_matrix_int8(@), !.next = 1]
    /\ fPc' = "protocol"
    /\ UNCHANGED << fIn, driver >>

RerunIssue ==
    /\ fPc = "protocol"
    /\ fOut.next <= Len(RerunProtocol(fIn.test))
    /\ RerunProtocol(fIn.test)[fOut.next].op # "gemmini_fence"
    /\ fOut' = [fOut EXCEPT !.gem.queue =
                   Append(@, Command(RerunProtocol(fIn.test)[fOut.next],
                                     RerunAddrs(fIn.test))),
                            !.next = @ + 1]
    /\ UNCHANGED << fPc, fIn, driver >>

RerunFence ==
    /\ fPc = "protocol"
    /\ fOut.next <= Len(RerunProtocol(fIn.test))
    /\ RerunProtocol(fIn.test)[fOut.next].op = "gemmini_fence"
    /\ FenceReturns(fOut.gem)
    /\ fOut' = [fOut EXCEPT !.next = @ + 1]
    /\ UNCHANGED << fPc, fIn, driver >>

RerunComplete ==
    /\ fOut.gem.queue # << >>
    /\ LET after == GemExec(fOut.gem, fOut.mem, Head(fOut.gem.queue), DevMatrix(0, 0))
       IN fOut' = [fOut EXCEPT !.gem = [after.gem EXCEPT !.queue = Tail(fOut.gem.queue)],
                               !.mem = after.mem]
    /\ UNCHANGED << fPc, fIn, driver >>

\* the sequence is over: the output buffer is looked at, and the sequence
\* is started again
RerunAgain ==
    /\ fPc = "protocol"
    /\ fOut.next > Len(RerunProtocol(fIn.test))
    /\ fOut' = [fOut EXCEPT !.outputs = Append(@, fOut.mem.gemmini_C)]
    /\ fPc' = IF Len(fOut.outputs) + 1 < MaxRuns THEN "flush" ELSE "finished"
    /\ UNCHANGED << fIn, driver >>

NextRerun ==
    \/ RerunFlush
    \/ RerunZero
    \/ RerunIssue
    \/ RerunFence
    \/ RerunComplete
    \/ RerunAgain

SpecRerun == InitRerun /\ [][NextRerun]_vars

\* C15: every execution of the accelerator sequence on the same inputs
\* leaves the same output buffer as the first one, whatever the scratchpad
\* held before the first.
C15_RerunIdempotent ==
    \A k \in 1 .. Len(fOut.outputs) : fOut.outputs[k] = fOut.outputs[1]

\* two executions on a scratchpad that held other data, the output being
\* neither what the buffer held before nor zero
C15_Witness ==
    /\ fPc = "finished"
    /\ Len(fOut.outputs) >= 2
    /\ fIn.spFill = 7
    /\ fOut.outputs[2] # PatternMatrix("all", DIM, 5, 5)
    /\ fOut.outputs[2] # PatternMatrix("all", DIM, 0, 0)
    /\ fOut.outputs[2][0][0] = 127

\* ------------------------------------------- vector mode before vector code
\* the statement enable_vector_extension() of an earlier function, or an
\* earlier one of the function being executed, has been executed
EnableCompleted ==
    \E k \in 1 .. fn : \E e \in 1 .. Len(Body(main(prog)[k])) :
        /\ Body(main(prog)[k])[e].op = "enable_vector_extension"
        /\ k < fn \/ pc > e

\* C16: whenever a call of ara_vector_saxpy is about to issue its vector
\* instructions, enable_vector_extension has completed and MSTATUS.VS is
\* not Off; this includes the call in test_comparison and runs in which
\* test_ara_performance returned 1.  No run ends in the illegal instruction
\* trap of a vector instruction.
C16_VectorEnabledBeforeUse ==
    /\ At("ara_vector_saxpy") => EnableCompleted /\ MstatusVS(mstatus) # 0
    /\ status = "trapped" => Cur.op # "ara_vector_saxpy"

\* the call inside test_comparison, reached after test_ara_performance
\* returned 1, on a core that came out of reset with the vector state Off
C16_Witness ==
    /\ At("ara_vector_saxpy")
    /\ main(prog)[fn] = "test_comparison"
    /\ \E k \in 1 .. Len(returns) : returns[k] = << "test_ara_performance", 1 >>
    /\ mstatus = 520

\* ------------------------------------------------------ timed measurements
\* the statements that are measured
KernelOps ==
    {"scalar_saxpy", "ara_vector_saxpy", "scalar_matmul_int32", "scalar_matmul_int8",
     "gemmini_config_ld", "gemmini_config_st", "gemmini_mvin", "gemmini_config_ex",
     "gemmini_preload_zeros", "gemmini_compute_preloaded", "gemmini_mvout",
     "gemmini_fence"}

SampleOps == {"read_csr_mcycle", "read_csr_minstret"}

DeltaOps == {"cycles_since", "subtract", "print_cycles"}

\* the locals that hold a difference of two samples
DeltaLocals ==
    {"scalar_saxpy_cycles", "ara_saxpy_cycles", "scalar_matmul_cycles",
     "gemmini_matmul_cycles", "cycles", "instrs", "scalar_cycles", "gemmini_cycles"}

\* the last statement before index k of body b that samples a counter into
\* v, 0 if there is none
LastSample(b, v, k) ==
    LET S == {i \in 1 .. k - 1 : b[i].op \in SampleOps /\ b[i].args[1] = v}
    IN IF S = {} THEN 0 ELSE CHOOSE i \in S : \A h \in S : h <= i

\* the statement at index k of body b takes the difference of two samples:
\* where its end sample and its start sample are taken
EndOf(b, k) ==
    CASE b[k].op = "cycles_since" -> k
      [] b[k].op = "subtract" -> LastSample(b, b[k].args[2], k)
      [] b[k].op = "print_cycles" -> LastSample(b, b[k].args[1], k)

StartOf(b, k) ==
    CASE b[k].op = "cycles_since" -> LastSample(b, b[k].args[2], k)
      [] b[k].op = "subtract" -> LastSample(b, b[k].args[3], EndOf(b, k))
      [] b[k].op = "print_cycles" -> LastSample(b, b[k].args[2], EndOf(b, k))

\* the start sample precedes the first statement of a kernel and the end
\* sample follows its last: between the two there is a kernel and nothing
\* but the kernel and other samples, and no kernel statement is next to
\* the pair on the outside
Brackets(b, s, e) ==
    /\ 0 < s /\ s < e
    /\ \E k \in s + 1 .. e - 1 : b[k].op \in KernelOps
    /\ \A k \in s + 1 .. e - 1 : b[k].op \in KernelOps \cup SampleOps
    /\ s > 1 => b[s - 1].op \notin KernelOps
    /\ e < Len(b) => b[e + 1].op \notin KernelOps

\* the values the difference at the current statement is taken of
EndValue == IF Cur.op = "cycles_since" THEN mcycle ELSE loc[Body(main(prog)[fn])[EndOf(Body(main(prog)[fn]), pc)].args[1]]

StartValue == loc[Body(main(prog)[fn])[StartOf(Body(main(prog)[fn]), pc)].args[1]]

\* C17: wherever a difference of two counter samples is taken, the start
\* sample was taken before the first statement of the measured kernel and
\* the end sample after its last one, the end value is not below the start
\* value, and no difference that was stored is negative.
C17_MeasurementsBracketKernel ==
    /\ Running /\ Cur.op \in DeltaOps =>
          /\ Brackets(Body(main(prog)[fn]), StartOf(Body(main(prog)[fn]), pc),
                      EndOf(Body(main(prog)[fn]), pc))
          /\ StartValue <= EndValue
    /\ \A v \in DeltaLocals : loc[v] >= 0

\* the accelerator measurement of test_comparison has been taken and is
\* positive, after a vector measurement of zero cycles
C17_Witness ==
    /\ At("print_speedup_tenths")
    /\ loc["gemmini_matmul_cycles"] > 0
    /\ loc["ara_saxpy_cycles"] = 0
    /\ loc["scalar_matmul_cycles"] > 0

\* ------------------------------------------------- flush before a sequence
\* the k-th issued command has a flush before it, with no fence between
\* the flush and the command
FlushedBefore(k) ==
    \E j \in 1 .. k - 1 :
        /\ issued[j].op = "gemmini_flush"
        /\ \A h \in j + 1 .. k - 1 : issued[h].op # "gemmini_fence"

\* C18: the first accelerator command of a run is a gemmini_flush, and
\* every gemmini_config_ld that opens a sequence has a flush of its own
\* before it, issued after the fence of the sequence before.
C18_FlushBeforeEverySequence ==
    /\ issued # << >> => issued[1].op = "gemmini_flush"
    /\ \A k \in 1 .. Len(issued) :
          issued[k].op = "gemmini_config_ld" => FlushedBefore(k)

\* the second sequence of a run has been opened: fence, flush, config_ld
C18_Witness ==
    /\ Len(issued) >= 12
    /\ issued[10].op = "gemmini_fence"
    /\ issued[11].op = "gemmini_flush"
    /\ issued[12].op = "gemmini_config_ld"

\* ------------------------------------------- nothing left over between tests
SharedBuffers == {"gemmini_A", "gemmini_B", "gemmini_C"}

\* the statement about to be executed rewrites one of the buffers the
\* accelerator reads or writes
RewritesShared ==
    /\ Running
    /\ Cur.op \in {"init_matrix_int8", "zero_matrix_int8"}
    /\ Cur.args[1] \in SharedBuffers

ComputesQueued ==
    Cardinality({k \in 1 .. Len(gem.queue) : gem.queue[k].op = "gemmini_compute_preloaded"})

\* C19: the core re-initialises or zeroes gemmini_A, gemmini_B or gemmini_C
\* only when no mvin, compute or mvout is outstanding, and it issues a
\* compute only when no earlier compute is outstanding; at no time are two
\* computes outstanding.
C19_NothingOutstandingBetweenTests ==
    /\ RewritesShared => ~Outstanding
    /\ (Running /\ Cur.op = "gemmini_compute_preloaded") => ComputesQueued = 0
    /\ ComputesQueued <= 1

\* the second accelerator test of a run re-initialises gemmini_A while the
\* flush it has just issued is still with the accelerator
C19_Witness ==
    /\ At("init_matrix_int8")
    /\ Cur.args[1] = "gemmini_A"
    /\ Len(issued) = 11
    /\ issued[10].op = "gemmini_fence"
    /\ gem.queue # << >>

\* ------------------------------------------------ the chunk loop of SAXPY
RECURSIVE SumSeq(_, _)
SumSeq(q, k) == IF k = 0 THEN 0 ELSE q[k] + SumSeq(q, k - 1)

\* the loop has so far handled the indices below off, each in one chunk,
\* and nothing else
ChunksPartition ==
    /\ fOut.n >= 0
    /\ \A k \in 1 .. Len(fOut.chunks) : fOut.chunks[k] >= 1
    /\ SumSeq(fOut.chunks, Len(fOut.chunks)) = fOut.off
    /\ fOut.off + fOut.n = fIn.n
    /\ \A i \in 0 .. fOut.off - 1 : fOut.y[i] = fIn.a * fIn.x[i] + fIn.y[i]
    /\ \A i \in fOut.off .. SaxpyLen - 1 : fOut.y[i] = fIn.y[i]
    /\ fIn.n = 0 => fOut.chunks = << >>

\* C20: with every granted length between 1 and min(n, VLMAX), the loop
\* of ara_vector_saxpy returns for every n >= 0; the remaining count never
\* goes below 0, the granted lengths add up to n, every index below n is
\* handled in exactly one chunk, no element of y from index n on is
\* written, and for n = 0 no iteration is executed.
C20_ChunkLoopTerminates ==
    /\ [](fPc \in {"ara_loop", "ara_returned"} => ChunksPartition)
    /\ <>(fPc = "ara_returned")
    /\ [](fPc = "ara_returned" => fOut.n = 0 /\ fOut.off = fIn.n)

\* a run over n = 3 elements of 5 returned after chunks of 2 and 1, the
\* elements from index 3 on as they were, those below changed
C20_Witness ==
    /\ fPc = "ara_returned"
    /\ fIn.n = 3
    /\ fOut.chunks = << 2, 1 >>
    /\ \A i \in 0 .. 2 : fOut.y[i] # fIn.y[i]
    /\ \A i \in 3 .. SaxpyLen - 1 : fOut.y[i] = fIn.y[i]

\* ------------------------------------------- what the SAXPY kernels touch
\* every y the loop of ara_vector_saxpy can leave, over all the lengths
\* the vector unit may grant
RECURSIVE AraOutcomes(_, _, _, _, _)
AraOutcomes(a, x, y, off, n) ==
    IF n > 0
    THEN UNION {AraOutcomes(a, x, ara_chunk(a, x, y, off, vl), off + vl, n - vl) :
                   vl \in vsetvli(n)}
    ELSE {y}

\* the caller's alpha, x and y before a call of one of the two kernels
InitFrame ==
    /\ DriverIdle
    /\ fPc = "call"
    /\ fIn \in [kernel : {"scalar_saxpy", "ara_vector_saxpy"},
                a : {-3, 0, 2},
                x : {RampVector(SaxpyLen, p, s) : p \in {-50, 0, 45}, s \in {0, 1}},
                y : {RampVector(SaxpyLen, p, s) : p \in {-10, 20}, s \in {0, -2}},
                n : 0 .. SaxpyLen]
    /\ fOut = [alpha |-> fIn.a, x |-> fIn.x, y |-> fIn.y]

\* scalar_saxpy(alpha, x, y, n): the one assignment is y[i] = ...
CallScalarSaxpy ==
    /\ fPc = "call"
    /\ fIn.kernel = "scalar_saxpy"
    /\ fOut' = [fOut EXCEPT !.y = scalar_saxpy(fOut.alpha, fOut.x, @, fIn.n)]
    /\ fPc' = "returned"
    /\ UNCHANGED << fIn, driver >>

\* ara_vector_saxpy(alpha, x, y, n): the one store is vse32.v v2, (y)
CallAraVectorSaxpy ==
    /\ fPc = "call"
    /\ fIn.kernel = "ara_vector_saxpy"
    /\ \E after \in AraOutcomes(fOut.alpha, fOut.x, fOut.y, 0, fIn.n) :
          fOut' = [fOut EXCEPT !.y = after]
    /\ fPc' = "returned"
    /\ UNCHANGED << fIn, driver >>

NextFrame == CallScalarSaxpy \/ CallAraVectorSaxpy

SpecFrame == InitFrame /\ [][NextFrame]_vars

\* C21: after a call of scalar_saxpy or ara_vector_saxpy the caller's x and
\* alpha are what they were, and so is every element of y from index n on.
C21_SaxpyFrame ==
    fPc = "returned" =>
       /\ fOut.x = fIn.x
       /\ fOut.alpha = fIn.a
       /\ \A i \in fIn.n .. SaxpyLen - 1 : fOut.y[i] = fIn.y[i]

\* calls of both kernels on 3 of 5 elements that changed y[0..2], seen
\* through the element at index 3 that a*x + y would have changed
C21_Witness ==
    /\ fPc = "returned"
    /\ fIn.n = 3
    /\ fIn.a * fIn.x[3] # 0
    /\ \A i \in 0 .. 2 : fOut.y[i] # fIn.y[i]
    /\ fOut.y[3] = fIn.y[3]

\* ------------------------------------------------------- fresh input data
InitOps == {"init_vector_int32", "init_matrix_int32", "init_matrix_int8"}

FillOps == InitOps \cup {"copy_vector"}

\* the buffers a kernel statement reads its operands from
InputBuffers(ins) ==
    CASE ins.op \in {"scalar_saxpy", "ara_vector_saxpy"} -> {ins.args[2], ins.args[3]}
      [] ins.op \in {"scalar_matmul_int32", "scalar_matmul_int8"} -> {ins.args[1], ins.args[2]}
      [] ins.op = "gemmini_mvin" -> {ins.args[1]}
      [] OTHER -> {}

\* the last statement before index k of body b that fills buf, 0 if none
LastFill(b, buf, k) ==
    LET S == {i \in 1 .. k - 1 : b[i].op \in FillOps /\ b[i].args[1] = buf}
    IN IF S = {} THEN 0 ELSE CHOOSE i \in S : \A h \in S : h <= i

\* the generator statement that decides what buf holds at index k: the
\* last fill of buf, or of the vector it was copied from
SeedFill(b, buf, k) ==
    LET i == LastFill(b, buf, k)
    IN IF i > 0 /\ b[i].op = "copy_vector" THEN LastFill(b, b[i].args[2], i) ELSE i

\* buf holds the pattern of the generator statement that the function
\* being executed assigns to it before index k
HoldsSeededPattern(buf, k) ==
    LET b == Body(main(prog)[fn])
        i == SeedFill(b, buf, k)
    IN /\ i > 0
       /\ CASE b[i].op = "init_vector_int32" ->
                  mem[buf] = init_vector_int32(mem[buf], b[i].args[2], b[i].args[3])
            [] b[i].op = "init_matrix_int32" ->
                  mem[buf] = init_matrix_int32(mem[buf], b[i].args[2], b[i].args[3])
            [] b[i].op = "init_matrix_int8" ->
                  mem[buf] = init_matrix_int8(mem[buf], b[i].args[2])
            [] OTHER -> FALSE

\* C22: whenever a kernel statement is about to be executed, and whenever
\* the accelerator is about to execute a move-in, every buffer the kernel
\* reads holds the pattern of the seed that the test function being executed
\* assigned to it, whatever earlier kernels left there; and gemmini_C is all
\* zeros when the first command of the protocol, gemmini_config_ld, is
\* issued.
C22_NoStaleData ==
    /\ Running =>
          \A buf \in InputBuffers(Cur) : HoldsSeededPattern(buf, pc)
    /\ (Running /\ gem.queue # << >>) =>
          \A buf \in InputBuffers(Head(gem.queue)) : HoldsSeededPattern(buf, pc)
    /\ At("gemmini_config_ld") => mem["gemmini_C"] = zero_matrix_int8(mem["gemmini_C"])

\* the vector SAXPY of test_comparison about to start, after the scalar
\* SAXPY of the same function changed vec_y and vec_y was filled again
C22_Witness ==
    /\ At("ara_vector_saxpy")
    /\ main(prog)[fn] = "test_comparison"
    /\ mem["vec_y"] = init_vector_int32(mem["vec_y"], VEC_LEN, Seed(8738))
    /\ mem["vec_y"] # scalar_saxpy(5, mem["vec_x"], mem["vec_y"], VEC_LEN)

\* ------------------------------------------------- verified before tabulated
\* the statements that print the row of an accelerated kernel in a summary
\* table, with the statement that ends the run of that kernel and the
\* verification pass that would check its output
RowKernelEnd(op) ==
    IF op = "print_speedup_tenths" THEN "ara_vector_saxpy" ELSE "gemmini_fence"

RowVerification(op) ==
    IF op = "print_speedup_tenths" THEN "verify_ara" ELSE "verify_gemmini"

RowOps == {"print_speedup_tenths", "print_speedup"}

\* the last statement before index k of body b with the operation op
LastOp(b, op, k) ==
    LET S == {i \in 1 .. k - 1 : b[i].op = op}
    IN IF S = {} THEN 0 ELSE CHOOSE i \in S : \A h \in S : h <= i

\* C23: when the row of an accelerated kernel is about to be printed in a
\* summary table, a verification pass of that kernel's output has been
\* executed since the kernel's run ended.
C23_VerifiedBeforeTabulated ==
    (Running /\ Cur.op \in RowOps) =>
        \E v \in LastOp(Body(main(prog)[fn]), RowKernelEnd(Cur.op), pc) + 1 .. pc - 1 :
            Body(main(prog)[fn])[v].op = RowVerification(Cur.op)

\* ----------------------------------------------- the two move-ins commute
\* a protocol with its two adjacent move-ins exchanged
SwapMvins(p) ==
    [k \in DOMAIN p |->
        IF p[k].op = "gemmini_mvin" /\ k < Len(p) /\ p[k + 1].op = "gemmini_mvin"
        THEN p[k + 1]
        ELSE IF p[k].op = "gemmini_mvin" /\ k > 1 /\ p[k - 1].op = "gemmini_mvin"
             THEN p[k - 1]
             ELSE p[k]]

CommuteCode(test) ==
    IF test = "test_gemmini_performance" THEN tgp_protocol ELSE tgm_protocol

CommuteAddrs(test) ==
    LET l == IF test = "test_gemmini_performance" THEN tgp_sp_addrs(DIM)
             ELSE tgm_sp_addrs(DIM)
    IN [A_sp |-> l[1], B_sp |-> l[2], C_sp |-> l[3]]

\* the sequence that is issued: the one of the code, or that with mvin B
\* issued before mvin A
CommuteProtocol(in) ==
    IF in.order = "A then B" THEN CommuteCode(in.test) ELSE SwapMvins(CommuteCode(in.test))

\* accelerator and memory after the first k commands of protocol p have
\* been executed one after another, in the order of p
RECURSIVE RunCommands(_, _, _, _, _)
RunCommands(p, addrs, g, m, k) ==
    IF k = 0 THEN [gem |-> g, mem |-> m]
    ELSE LET before == RunCommands(p, addrs, g, m, k - 1)
         IN IF p[k].op = "gemmini_fence" THEN before
            ELSE GemExec(before.gem, before.mem, Command(p[k], addrs), DevMatrix(0, 0))

InitCommute ==
    /\ DriverIdle
    /\ fPc = "protocol"
    /\ fIn \in [test : {"test_gemmini_performance", "test_gemmini_matmul"},
                order : {"A then B", "B then A"},
                A : RerunInputs, B : RerunInputs, spFill : {0, 7}]
    /\ fOut = [mem |-> [gemmini_A |-> fIn.A, gemmini_B |-> fIn.B,
                        gemmini_C |-> PatternMatrix("all", DIM, 0, 0)],
               gem |-> Gemmini(DIM, fIn.spFill),
               next |-> 1,
               spAtCompute |-> << >>]

CommuteIssue ==
    /\ fPc = "protocol"
    /\ fOut.next <= Len(CommuteProtocol(fIn))
    /\ CommuteProtocol(fIn)[fOut.next].op # "gemmini_fence"
    /\ fOut' = [fOut EXCEPT !.gem.queue =
                   Append(@, Command(CommuteProtocol(fIn)[fOut.next],
                                     CommuteAddrs(fIn.test))),
                            !.next = @ + 1]
    /\ UNCHANGED << fPc, fIn, driver >>

CommuteFence ==
    /\ fPc = "protocol"
    /\ fOut.next <= Len(CommuteProtocol(fIn))
    /\ CommuteProtocol(fIn)[fOut.next].op = "gemmini_fence"
    /\ FenceReturns(fOut.gem)
    /\ fOut' = [fOut EXCEPT !.next = @ + 1]
    /\ fPc' = "finished"
    /\ UNCHANGED << fIn, driver >>

\* the accelerator executes its oldest command; the scratchpad a compute
\* finds is kept
CommuteComplete ==
    /\ fOut.gem.queue # << >>
    /\ LET cmd == Head(fOut.gem.queue)
           after == GemExec(fOut.gem, fOut.mem, cmd, DevMatrix(0, 0))
       IN fOut' = [fOut EXCEPT !.gem = [after.gem EXCEPT !.queue = Tail(fOut.gem.queue)],
                               !.mem = after.mem,
                               !.spAtCompute =
                                   IF cmd.op = "gemmini_compute_preloaded"
                                   THEN << fOut.gem.sp >> ELSE @]
    /\ UNCHANGED << fPc, fIn, driver >>

\* two move-ins are outstanding one behind the other, and the one issued
\* later completes first
CommuteCompleteSecond ==
    /\ Len(fOut.gem.queue) >= 2
    /\ fOut.gem.queue[1].op = "gemmini_mvin"
    /\ fOut.gem.queue[2].op = "gemmini_mvin"
    /\ LET after == GemExec(fOut.gem, fOut.mem, fOut.gem.queue[2], DevMatrix(0, 0))
       IN fOut' = [fOut EXCEPT !.gem = [after.gem EXCEPT !.queue =
                                           << fOut.gem.queue[1] >> \o Tail(Tail(fOut.gem.queue))],
                               !.mem = after.mem]
    /\ UNCHANGED << fPc, fIn, driver >>

NextCommute ==
    \/ CommuteIssue
    \/ CommuteFence
    \/ CommuteComplete
    \/ CommuteCompleteSecond

SpecCommute == InitCommute /\ [][NextCommute]_vars

\* what the sequence of the code, executed in its order, leaves
CodeOrderRun(k) ==
    RunCommands(CommuteCode(fIn.test), CommuteAddrs(fIn.test),
                Gemmini(DIM, fIn.spFill),
                [gemmini_A |-> fIn.A, gemmini_B |-> fIn.B,
                 gemmini_C |-> PatternMatrix("all", DIM, 0, 0)], k)

\* C24: with mvin B issued before mvin A, and with the two move-ins
\* completing in either order, the compute finds the scratchpad that it
\* finds in the order of the code, and the sequence leaves the same
\* gemmini_C, for all A and B.
C24_MvinsCommute ==
    /\ fOut.spAtCompute # << >> => fOut.spAtCompute[1] = CodeOrderRun(6).gem.sp
    /\ fPc = "finished" =>
          fOut.mem.gemmini_C = CodeOrderRun(Len(CommuteCode(fIn.test))).mem.gemmini_C

\* mvin B was issued first, on a scratchpad holding other data, A and B
\* differing; the sequence finished with a product that is not zero
C24_Witness ==
    /\ fPc = "finished"
    /\ fIn.order = "B then A"
    /\ fIn.spFill = 7
    /\ fIn.A # fIn.B
    /\ fOut.spAtCompute # << >>
    /\ fOut.mem.gemmini_C # PatternMatrix("all", DIM, 0, 0)

\* ------------------------------------------- what a verification pass prints
\* the statements after the accelerator verification loops that print the
\* verdict of the pass
GemminiVerdicts ==
    {test_gemmini_performance[k] : k \in {h \in DOMAIN test_gemmini_performance :
                                            test_gemmini_performance[h].op = "print_verdict"}}
    \cup {test_gemmini_matmul[k] : k \in {h \in DOMAIN test_gemmini_matmul :
                                            test_gemmini_matmul[h].op = "print_verdict"}}

\* if (errors == 0) printf(first) [else printf(second)], after the loops
ReportVerdictGemmini ==
    /\ fPc = "verified_gemmini"
    /\ \E ins \in GemminiVerdicts :
          fOut' = [fOut EXCEPT !.printed =
                      IF fOut.errors = 0 THEN Append(@, << ins.args[1] >>)
                      ELSE IF ins.args[2] # "" THEN Append(@, << ins.args[2] >>)
                      ELSE @]
    /\ fPc' = "reported_gemmini"
    /\ UNCHANGED << fIn, driver >>

\* if (errors == 0) printf(PASSED) else { printf(FAILED); return 1; }
ReportVerdictAra ==
    /\ fPc = "verified_ara"
    /\ fOut' = [fOut EXCEPT !.printed =
                   IF fOut.errors = 0 THEN Append(@, << "Verification: PASSED" >>)
                   ELSE Append(@, << "Verification: FAILED", fOut.errors >>)]
    /\ fPc' = "reported_ara"
    /\ UNCHANGED << fIn, driver >>

NextReport == NextVerify \/ ReportVerdictGemmini \/ ReportVerdictAra

SpecReport == InitVerify /\ [][NextReport]_vars

IsMismatchLine(line) == line[1] = "MISMATCH"

MismatchLines == SelectSeq(fOut.printed, IsMismatchLine)

PassMessages == {<< "Verification: PASSED" >>, << "Gemmini results match reference" >>}

\* the out-of-tolerance cells with fewer than five such cells before them in
\* row-major order
FirstFiveCells ==
    {c \in OutOfTolerance :
        Cardinality({d \in OutOfTolerance : d[1] * DIM + d[2] < c[1] * DIM + c[2]}) < 5}

Differing == {i \in 0 .. fIn.n - 1 : fIn.y[i] # fIn.ref[i]}

FirstFiveElements == {i \in Differing : Cardinality({h \in Differing : h < i}) < 5}

\* C25: a verification pass prints at most five mismatch lines; they are
\* the first (up to five) out-of-tolerance cells in row-major order (index
\* order for the vector pass), one line each, with the cell's coordinates
\* and its actual and expected value; with no such cell no mismatch line is
\* printed and the pass message is.
C25_FirstFiveReported ==
    /\ fPc \in {"reported_gemmini", "reported_ara"} => Len(MismatchLines) <= 5
    /\ fPc = "reported_gemmini" =>
          /\ Len(MismatchLines) = Cardinality(FirstFiveCells)
          /\ \A k \in 1 .. Len(MismatchLines) :
                LET l == MismatchLines[k]
                IN /\ << l[2], l[3] >> \in FirstFiveCells
                   /\ l = << "MISMATCH", l[2], l[3], fIn.C[l[2]][l[3]], fIn.ref[l[2]][l[3]] >>
                   /\ k > 1 => MismatchLines[k - 1][2] * DIM + MismatchLines[k - 1][3]
                                  < l[2] * DIM + l[3]
          /\ OutOfTolerance = {} => fOut.printed \in {<< m >> : m \in PassMessages}
    /\ fPc = "reported_ara" =>
          /\ Len(MismatchLines) = Cardinality(FirstFiveElements)
          /\ \A k \in 1 .. Len(MismatchLines) :
                LET l == MismatchLines[k]
                IN /\ l[2] \in FirstFiveElements
                   /\ l = << "MISMATCH", l[2], fIn.y[l[2]], fIn.ref[l[2]] >>
                   /\ k > 1 => MismatchLines[k - 1][2] < l[2]
          /\ Differing = {} => fOut.printed = << << "Verification: PASSED" >> >>

\* an accelerator pass over nine cells out of tolerance that printed the
\* five lines of (0,0) .. (1,1) and no pass message
C25_Witness ==
    /\ fPc = "reported_gemmini"
    /\ Cardinality(OutOfTolerance) = DIM * DIM
    /\ Cardinality(OutOfTolerance) > 5
    /\ Len(MismatchLines) = 5
    /\ MismatchLines[5][2] * DIM + MismatchLines[5][3] = 4
    /\ \A k \in 1 .. Len(fOut.printed) : fOut.printed[k] \notin PassMessages

\* ------------------------------------------------ the int32 matrix product
\* #define TEST_DIM 16
FullTestDim == 16

\* scalar_A, scalar_B as init_matrix_int32 leaves them, scalar_C as
\* zero_matrix_int32 or an earlier product left it
InitMatmul32 ==
    /\ DriverIdle
    /\ fPc = "scalar_matmul_int32"
    /\ fIn \in [seedA : InitSeeds, seedB : InitSeeds, c : {0, 99}]
    /\ fOut = [A |-> init_matrix_int32(Flat(FullTestDim * FullTestDim),
                                       FullTestDim * FullTestDim, fIn.seedA),
               B |-> init_matrix_int32(Flat(FullTestDim * FullTestDim),
                                       FullTestDim * FullTestDim, fIn.seedB),
               C |-> RampVector(FullTestDim * FullTestDim, fIn.c, 0)]

\* scalar_matmul_int32(scalar_A, scalar_B, scalar_C, TEST_DIM)
RunScalarMatmulInt32 ==
    /\ fPc = "scalar_matmul_int32"
    /\ fOut' = [fOut EXCEPT !.C = scalar_matmul_int32(fOut.A, fOut.B, @, FullTestDim)]
    /\ fPc' = "multiplied"
    /\ UNCHANGED << fIn, driver >>

NextMatmul32 == RunScalarMatmulInt32

SpecMatmul32 == InitMatmul32 /\ [][NextMatmul32]_vars

\* the mathematical sum of A[i*N+k] * B[k*N+j] over the indices k in ks
RECURSIVE SumFlatProducts(_, _, _, _, _, _)
SumFlatProducts(A, B, N, i, j, ks) ==
    IF ks = {} THEN 0
    ELSE LET k == CHOOSE x \in ks : TRUE
         IN A[i * N + k] * B[k * N + j] + SumFlatProducts(A, B, N, i, j, ks \ {k})

\* C26: for 16 x 16 matrices left by init_matrix_int32, whose elements are
\* in [-32, 31], scalar_matmul_int32 stores the mathematical product in
\* every cell of C; every partial sum is at most k * 1024 in magnitude, far
\* inside 32 bits, so the conversion to int32_t keeps the value; A and B
\* are left unchanged.
C26_ExactInt32Product ==
    /\ \A c \in DOMAIN fOut.A : fOut.A[c] \in -32 .. 31 /\ fOut.B[c] \in -32 .. 31
    /\ fPc = "multiplied" =>
          /\ \A i, j \in 0 .. FullTestDim - 1 :
                /\ fOut.C[i * FullTestDim + j]
                      = SumFlatProducts(fOut.A, fOut.B, FullTestDim, i, j, 0 .. FullTestDim - 1)
                /\ \A k \in 0 .. FullTestDim :
                      Abs(DotInt32(fOut.A, fOut.B, FullTestDim, i, j, k)) <= k * 1024
          /\ InInt32(FullTestDim * 1024)
          /\ fOut.A = init_matrix_int32(fOut.A, FullTestDim * FullTestDim, fIn.seedA)
          /\ fOut.B = init_matrix_int32(fOut.B, FullTestDim * FullTestDim, fIn.seedB)

\* the product of the matrices of the seeds 0x5678 and 0x9ABC, stored over
\* a C that held 99: cells beyond the int8 range of either sign
C26_Witness ==
    /\ fPc = "multiplied"
    /\ fIn = [seedA |-> Seed(22136), seedB |-> Seed(39612), c |-> 99]
    /\ \E c \in DOMAIN fOut.C : fOut.C[c] > 127
    /\ \E c \in DOMAIN fOut.C : fOut.C[c] < -128
    /\ \A c \in DOMAIN fOut.C :
          fOut.C[c] = DotInt32(fOut.A, fOut.B, FullTestDim, c \div FullTestDim,
                               c % FullTestDim, FullTestDim)

\* ------------------------------------- the seeded int8 matrices multiplied
\* the functions that give seeded matrices to the int8 multiplication or to
\* the accelerator
SeededTests ==
    {"test_gemmini_performance", "test_comparison", "test_gemmini_matmul",
     "test_performance_comparison"}

\* the seed the function test passes to init_matrix_int8 for buf
SeedPassed(test, buf) ==
    LET b == Body(test)
        k == CHOOSE h \in DOMAIN b : b[h].op = "init_matrix_int8" /\ b[h].args[1] = buf
    IN b[k].args[2]

InitSeeded ==
    /\ DriverIdle
    /\ fPc = "init"
    /\ fIn \in [test : SeededTests]
    /\ fOut = [A |-> Square(FullDIM), B |-> Square(FullDIM), C |-> Square(FullDIM),
               cell |-> 0, clamped |-> {}]

\* init_matrix_int8(gemmini_A, seed); init_matrix_int8(gemmini_B, seed);
SeededInit ==
    /\ fPc = "init"
    /\ fOut' = [fOut EXCEPT !.A = init_matrix_int8(@, SeedPassed(fIn.test, "gemmini_A")),
                            !.B = init_matrix_int8(@, SeedPassed(fIn.test, "gemmini_B"))]
    /\ fPc' = "scalar_matmul_int8"
    /\ UNCHANGED << fIn, driver >>

\* one iteration of the j loop of scalar_matmul_int8: the k loop, the two
\* comparisons and the store of cell (i, j); clamped keeps the cells whose
\* sum a comparison changed
SeededCell ==
    /\ fPc = "scalar_matmul_int8"
    /\ fOut.cell < FullDIM * FullDIM
    /\ LET i == fOut.cell \div FullDIM
           j == fOut.cell % FullDIM
           sum == DotInt8(fOut.A, fOut.B, i, j, FullDIM)
       IN fOut' = [fOut EXCEPT !.C[i][j] = SaturateInt8(sum),
                               !.cell = @ + 1,
                               !.clamped = IF sum > 127 \/ sum < -128
                                           THEN @ \cup {<< i, j >>} ELSE @]
    /\ UNCHANGED << fPc, fIn, driver >>

SeededReturn ==
    /\ fPc = "scalar_matmul_int8"
    /\ fOut.cell = FullDIM * FullDIM
    /\ fPc' = "multiplied"
    /\ UNCHANGED << fIn, fOut, driver >>

NextSeeded == SeededInit \/ SeededCell \/ SeededReturn

SpecSeeded == InitSeeded /\ [][NextSeeded]_vars

\* C27: for DIM = 16 and each pair of seeds a driver passes to
\* init_matrix_int8, the product has a cell whose sum is outside
\* [-128, 127], so that the clamp of scalar_matmul_int8 changes a value.
C27_SeedsExerciseSaturation ==
    fPc = "multiplied" => fOut.clamped # {}

\* ------------------------------------------------- like compared with like
\* the seed of the generator statement that decides what buf holds at
\* index k of body b
SeedAt(b, buf, k) ==
    LET i == SeedFill(b, buf, k)
    IN IF b[i].op = "init_matrix_int8" THEN b[i].args[2] ELSE b[i].args[3]

\* the two SAXPY runs of a ratio: same alpha, same vectors, same n, the
\* vectors generated from the same seeds
SaxpyRunsEquivalent(b, k) ==
    LET s == LastOp(b, "scalar_saxpy", k)
        a == LastOp(b, "ara_vector_saxpy", k)
    IN /\ s > 0 /\ a > 0
       /\ b[s].args = b[a].args
       /\ SeedAt(b, b[s].args[2], s) = SeedAt(b, b[a].args[2], a)
       /\ SeedAt(b, b[s].args[3], s) = SeedAt(b, b[a].args[3], a)

\* the two matrix multiplications of a ratio: A and B generated from the
\* same seeds
MatmulRunsEquivalent(b, k) ==
    LET s == LastOp(b, "scalar_matmul_int32", k)
        g == LastOp(b, "gemmini_compute_preloaded", k)
    IN /\ s > 0 /\ g > 0
       /\ SeedAt(b, b[s].args[1], s) = SeedAt(b, "gemmini_A", g)
       /\ SeedAt(b, b[s].args[2], s) = SeedAt(b, "gemmini_B", g)

\* C28: when a speedup ratio of the summary is about to be printed, the
\* scalar run and the accelerated run whose cycle counts it divides worked
\* on input generated from the same seeds (SAXPY: also the same alpha and
\* n).
C28_EquivalentWorkloads ==
    /\ At("print_speedup_tenths") => SaxpyRunsEquivalent(Body(main(prog)[fn]), pc)
    /\ At("print_speedup") => MatmulRunsEquivalent(Body(main(prog)[fn]), pc)

\* --------------------------------------------- enable_vector_extension alone
\* how many times the function is called in a row
MaxCalls == 3

\* bits of mstatus that are tried set and clear: MIE, MPIE, VS (9, 10),
\* MPP (11, 12), FS (13), MPRV (17), TSR (22), and bit 30
MstatusBits == {3, 7, 9, 10, 11, 12, 13, 17, 22, 30}

Pow2(k) == 2 ^ k

RECURSIVE SumOfBits(_)
SumOfBits(bits) ==
    IF bits = {} THEN 0
    ELSE LET k == CHOOSE x \in bits : TRUE IN Pow2(k) + SumOfBits(bits \ {k})

BitOf(m, k) == (m \div Pow2(k)) % 2

InitEnable ==
    /\ DriverIdle
    /\ fPc = "running"
    /\ fIn \in {SumOfBits(bits) : bits \in SUBSET MstatusBits}
    /\ fOut = [mstatus |-> fIn, calls |-> 0, first |-> fIn]

\* enable_vector_extension(): csrr, |=, csrw; first keeps the value the
\* first call left
CallEnableVectorExtension ==
    /\ fPc = "running"
    /\ fOut.calls < MaxCalls
    /\ fOut' = [mstatus |-> enable_vector_extension(fOut.mstatus),
                calls |-> fOut.calls + 1,
                first |-> IF fOut.calls = 0 THEN enable_vector_extension(fOut.mstatus)
                          ELSE fOut.first]
    /\ UNCHANGED << fPc, fIn, driver >>

EnableDone ==
    /\ fPc = "running"
    /\ fOut.calls > 0
    /\ fPc' = "done"
    /\ UNCHANGED << fIn, fOut, driver >>

NextEnable == CallEnableVectorExtension \/ EnableDone

SpecEnable == InitEnable /\ [][NextEnable]_vars

CycleCounts == {0, 1, 2, 3, 7, 9, 10, 11, 99, 100, 1000, 123456789}

InitRatio ==
    /\ DriverIdle
    /\ fPc = "summary"
    /\ fIn \in [op : {"print_speedup_tenths", "print_speedup"},
                s : CycleCounts, a : CycleCounts \ {0}]
    /\ fOut = << >>

\* the printf of a row of the summary, the divisor not zero
PrintRow ==
    /\ fPc = "summary"
    /\ fOut' = ratio_printed(fIn.op, fIn.s, fIn.a)
    /\ fPc' = "printed"
    /\ UNCHANGED << fIn, driver >>

NextRatio == PrintRow

SpecRatio == InitRatio /\ [][NextRatio]_vars

\* q is the quotient n / d rounded towards zero, n >= 0 and d > 0
IsFloor(q, n, d) == q * d <= n /\ n - q * d < d

\* C30: the integer part printed is floor(s / a); the decimal digit of the
\* vector row is F = floor(10 * s / a) mod 10, between 0 and 9, and
\* 10 * I + F = floor(10 * s / a): the ratio is truncated to one decimal,
\* never rounded up.  The accelerator row prints floor(s / a) only.
C30_SpeedupTruncated ==
    fPc = "printed" =>
       /\ IsFloor(fOut[2], fIn.s, fIn.a)
       /\ fIn.op = "print_speedup" => Len(fOut) = 2
       /\ fIn.op = "print_speedup_tenths" =>
             /\ Len(fOut) = 3
             /\ fOut[3] \in 0 .. 9
             /\ IsFloor(10 * fOut[2] + fOut[3], 10 * fIn.s, fIn.a)

\* 99 cycles against 10: 9.9x is printed, not 10
C30_Witness ==
    /\ fPc = "printed"
    /\ fIn = [op |-> "print_speedup_tenths", s |-> 99, a |-> 10]
    /\ fOut = << "ratio", 9, 9 >>

====
